---- MODULE Spec2Model ----
(***************************************************************************)
(* A model of the in-memory stores of cook-rag:                            *)
(*   - CacheManager   (src/rag_modules/cache_manager.py)                   *)
(*   - SessionManager (src/rag_modules/session_manager.py)                 *)
(* and of the rank fusion of its retrieval:                                *)
(*   - RetrievalOptimizationModule                                         *)
(*                    (src/rag_modules/retrieval_optimization.py)          *)
(* and of the parent documents behind the fragments:                       *)
(*   - DataPreparationModule (src/rag_modules/data_preparation.py)         *)
(* and of the request pipeline that uses them all:                         *)
(*   - RecipeRAGSystem.ask_question (src/main.py)                          *)
(* Strings are sequences of one-character strings.  Wall-clock time        *)
(* (time.time()) is the integer variable `now`, advanced by Tick.          *)
(***************************************************************************)
EXTENDS Integers, Sequences, FiniteSets, TLC

VARIABLES
    \* ---- key generation, as a pure function under SpecKey
    kin,        \* the input (session_id, query) of _generate_key
    kout,       \* the keys computed so far from kin
    \* ---- CacheManager
    max_size,   \* self.max_size
    ttl,        \* self.ttl
    cache,      \* self._cache: the OrderedDict, head first, as a sequence of entries
    stats,      \* self._stats
    now,        \* the value time.time() returns
    last,       \* the last call: its name, arguments, result and removals
    touched,    \* history: the keys in the table, least recently inserted or hit first
    ncalls,     \* history: number of calls made so far (bounds the runs)
    written,    \* history: the sets not yet undone: who asked what, the answer, when
    \* ---- SessionManager
    max_sessions,   \* self.max_sessions
    max_history,    \* self.max_history
    session_ttl,    \* self.session_ttl
    context_window, \* self.context_window
    sessions,   \* self._sessions: the OrderedDict, head first, as a sequence of Sessions
    issued,     \* number of session ids uuid4 has produced; id n is the n-th
    slast,      \* the last SessionManager call: name, arguments, result, removals
    scalls,     \* history: number of SessionManager calls made so far (bounds the runs)
    used,       \* history: the ids in the table, least recently created or looked up first
    \* ---- RetrievalOptimizationModule
    vector_answer,  \* what self.vectorstore.similarity_search does for the query
    bm25_answer,    \* what self.bm25_retriever does for the query
    chunks,     \* metadata['rrf_score'] of each Document of the index
    rlast,      \* the last hybrid_search call: its top_k, result and exception
    rcalls,     \* history: number of searches made so far (bounds the runs)
    \* ---- DataPreparationModule
    documents,  \* self.documents: the parent documents loaded
    plast,      \* the last DataPreparationModule call: name, argument, result, exception
    \* ---- RecipeRAGSystem
    built,      \* retrieval_module and generation_module are set
    ask,        \* the request in progress or last finished: where it stands,
                \* its arguments, what it yielded, what it wrote, how it ended
    asked,      \* history: number of requests made so far (bounds the runs)
    \* ---- threads and locks
    holder,     \* for each component lock: the thread that owns it and how
                \* many times it has acquired it
    stack,      \* for each thread: the calls it is inside, outermost first
    waiting,    \* the request of the thread that is not running now (ask is the
                \* request of the thread that is)
    creating    \* the create_session call that is under way: where it stands,
                \* its thread and its locals

keyVars   == <<kin, kout>>
cacheVars == <<max_size, ttl, cache, stats, now, last, ncalls, touched, written>>
sessVars  == <<max_sessions, max_history, session_ttl, context_window, sessions,
               issued, slast, scalls, used>>
searchVars == <<vector_answer, bm25_answer, chunks, rlast, rcalls>>
dataVars  == <<documents, plast>>
askVars   == <<built, ask, asked>>
lockVars  == <<holder, stack, waiting, creating>>
vars      == <<keyVars, cacheVars, sessVars, searchVars, dataVars, askVars, lockVars>>

\* what the calls of one component leave alone
notKeyVars    == <<cacheVars, sessVars, searchVars, dataVars, askVars, lockVars>>
notCacheVars  == <<keyVars, sessVars, searchVars, dataVars, askVars, lockVars>>
notSessVars   == <<keyVars, searchVars, dataVars, askVars, lockVars>>
notSearchVars == <<keyVars, cacheVars, sessVars, dataVars, askVars, lockVars>>
notLockVars   == <<keyVars, cacheVars, sessVars, searchVars, dataVars, askVars>>
notDataVars   == <<keyVars, cacheVars, sessVars, searchVars, askVars, lockVars>>

(***************************************************************************)
(* Bounds of the model.                                                    *)
(***************************************************************************)
MaxLen  == 3    \* longest question of SpecKey
MaxSize == 2    \* largest max_size
CacheTtl == 1   \* the ttl the cache is built with, in clock ticks
MaxTime == 2    \* last clock value
MaxOps  == 4    \* calls per run
MaxSessions == 2    \* largest max_sessions
SessionTtl  == 1    \* the session_ttl the store is built with, in clock ticks
HistoryTurns == 2   \* largest max_history
ContextTurns == 1   \* largest context_window
MaxHits  == 2   \* most documents an engine returns for a query
MaxTopK  == 3   \* largest top_k
MaxChunks == 3  \* most fragments handed to get_parent_documents
MaxRequests == 1    \* most requests of a run
MaxTokens == 2  \* most chunks of a streamed answer

None == "None"

(***************************************************************************)
(* Text: str.lower, str.strip, str.split, str.join, hashlib.md5.           *)
(***************************************************************************)
Alphabet   == {"a", "A", "b", "?", " ", "\t"}
Whitespace == {" ", "\t"}
Punctuation == {"?"}
HexDigits  == <<"0", "1", "2", "3", "4", "5", "6", "7",
                "8", "9", "a", "b", "c", "d", "e", "f">>
DigestLen  == 32

RECURSIVE StringsUpTo(_)
StringsUpTo(n) ==
    IF n = 0 THEN {<<>>}
    ELSE LET shorter == StringsUpTo(n - 1)
         IN  shorter \cup {Append(s, c) : s \in {t \in shorter : Len(t) = n - 1}, c \in Alphabet}

lower_char(c) ==
    CASE c = "A" -> "a"
      [] OTHER   -> c

\* a _generate_key that drops the .lower() call
str_lower_kept(s) == s

str_lower(s) == [i \in 1..Len(s) |-> lower_char(s[i])]

RECURSIVE str_lstrip(_)
str_lstrip(s) ==
    IF s # <<>> /\ Head(s) \in Whitespace THEN str_lstrip(Tail(s)) ELSE s

RECURSIVE str_rstrip(_)
str_rstrip(s) ==
    IF s # <<>> /\ s[Len(s)] \in Whitespace
    THEN str_rstrip(SubSeq(s, 1, Len(s) - 1))
    ELSE s

str_strip(s) == str_rstrip(str_lstrip(s))

\* s.split(): the maximal runs of non-whitespace characters, in order.
RECURSIVE split_from(_, _, _)
split_from(s, word, words) ==
    IF s = <<>>
    THEN IF word = <<>> THEN words ELSE Append(words, word)
    ELSE IF Head(s) \in Whitespace
         THEN split_from(Tail(s), <<>>, IF word = <<>> THEN words ELSE Append(words, word))
         ELSE split_from(Tail(s), Append(word, Head(s)), words)

str_split(s) == split_from(s, <<>>, <<>>)

RECURSIVE str_join(_, _)
str_join(sep, words) ==
    IF words = <<>> THEN <<>>
    ELSE IF Len(words) = 1 THEN words[1]
    ELSE words[1] \o sep \o str_join(sep, Tail(words))

\* md5(...).hexdigest(): DigestLen hexadecimal digits.  The digest itself is
\* abstracted to a collision-free code of the text (MD5 has no collisions on
\* texts this short); what is kept is that it is a function of the encoded
\* text alone and has a fixed width.
char_code(c) ==
    CASE c = "a"  -> 1
      [] c = "A"  -> 2
      [] c = "b"  -> 3
      [] c = "?"  -> 4
      [] c = " "  -> 5
      [] c = "\t" -> 6

RECURSIVE text_code(_)
text_code(s) ==
    IF s = <<>> THEN 0 ELSE text_code(SubSeq(s, 1, Len(s) - 1)) * 7 + char_code(s[Len(s)])

RECURSIVE to_hex(_, _)
to_hex(n, width) ==
    IF width = 0 THEN <<>>
    ELSE Append(to_hex(n \div 16, width - 1), HexDigits[(n % 16) + 1])

md5_hexdigest(s) == to_hex(text_code(s), DigestLen)

\* a _generate_key that leaves the session out of the key
_generate_key_unscoped(session_id, query) ==
    md5_hexdigest(str_join(<<" ">>, str_split(str_strip(str_lower(query)))))

\* CacheManager._generate_key
_generate_key(session_id, query) ==
    LET normalized == str_join(<<" ">>, str_split(str_strip(str_lower(query))))
        result     == md5_hexdigest(normalized)
    IN  session_id \o <<":">> \o result

(***************************************************************************)
(* SpecKey: _generate_key as a pure function of its inputs.                *)
(***************************************************************************)
SessionIds == {<<"s", "1">>, <<"s", "2">>}

\* The normalization the contract documents: lower-case, trim, and collapse
\* every run of whitespace inside the text to one space.
RECURSIVE collapse(_, _)
collapse(s, inRun) ==
    IF s = <<>> THEN <<>>
    ELSE IF Head(s) \in Whitespace
         THEN (IF inRun THEN <<>> ELSE <<" ">>) \o collapse(Tail(s), TRUE)
         ELSE <<Head(s)>> \o collapse(Tail(s), FALSE)

RECURSIVE trim(_)
trim(s) ==
    IF s = <<>> THEN s
    ELSE IF Head(s) \in Whitespace THEN trim(Tail(s))
    ELSE IF s[Len(s)] \in Whitespace THEN trim(SubSeq(s, 1, Len(s) - 1))
    ELSE s

normalize(q) ==
    collapse(trim([i \in 1..Len(q) |-> IF q[i] = "A" THEN "a" ELSE q[i]]), FALSE)

(***************************************************************************)
(* CacheManager.                                                           *)
(***************************************************************************)
Questions == {<<"a">>, <<" ", "A">>, <<"b">>}
\* the (session_id, query) pairs the calls are made with: one question in two
\* spellings, the same question in another session, and another question
Requests  == {<<<<"s", "1">>, <<"a">>>>, <<<<"s", "1">>, <<" ", "A">>>>,
              <<<<"s", "2">>, <<"a">>>>, <<<<"s", "1">>, <<"b">>>>}
Answers   == {"x", "y"}
Metadatas == {None}

\* _generate_key on the inputs of the cache model, evaluated once
KeyOf == [s \in SessionIds, q \in Questions |-> _generate_key(s, q)]

\* What the last call was and did: its name and arguments, its result, where
\* its key sat in the table when it began (0: absent; for cleanup_expired,
\* where the first entry it removed sat) and the keys it took out of the
\* table, in the order they left.
Call(op, session_id, query, answer, ret, pos, removed) ==
    [op |-> op, session_id |-> session_id, query |-> query, answer |-> answer,
     ret |-> ret, pos |-> pos, removed |-> removed]

\* CacheEntry(query, answer, created_at, metadata) with hit_count = 0,
\* filed under its key.
CacheEntry(key, query, answer, created_at, metadata) ==
    [key |-> key, query |-> query, answer |-> answer, created_at |-> created_at,
     hit_count |-> 0, metadata |-> IF metadata = None THEN "{}" ELSE metadata]

KeySeq(c) == [i \in 1..Len(c) |-> c[i].key]
Keys(c)   == {c[i].key : i \in 1..Len(c)}

\* position of key in the OrderedDict, 0 when absent
IndexOf(c, key) ==
    IF key \in Keys(c) THEN CHOOSE i \in 1..Len(c) : c[i].key = key ELSE 0

\* del self._cache[key]
dict_del(c, i) == SubSeq(c, 1, i - 1) \o SubSeq(c, i + 1, Len(c))

\* a get that leaves the entry it hit where it was
move_to_end_skipped(c, i) == c

\* self._cache.move_to_end(key)
move_to_end(c, i) == Append(dict_del(c, i), c[i])

\* an expiry test that never finds an entry expired
_is_expired_never(entry, t) == FALSE

\* CacheManager._is_expired, with t the reading of time.time()
_is_expired(entry, t) == (t - entry.created_at) > ttl

\* a set without the eviction loop
lru_evict_never(c) == c

\* an eviction loop that pops the newest entry: popitem(last=True)
RECURSIVE lru_evict_newest(_)
lru_evict_newest(c) ==
    IF Len(c) > max_size THEN lru_evict_newest(SubSeq(c, 1, Len(c) - 1)) ELSE c

\* the eviction loop of set: while len(self._cache) > self.max_size: popitem(last=False)
RECURSIVE lru_evict(_)
lru_evict(c) ==
    IF Len(c) > max_size THEN lru_evict(Tail(c)) ELSE c

\* history: the keys of `order` without k, then k as the latest
Touch(order, k) == Append(SelectSeq(order, LAMBDA x : x # k), k)
\* history: the keys of `order` that are still in table c
Still(order, c) == SelectSeq(order, LAMBDA x : x \in Keys(c))

\* history: the ids of `order` that are still in session table ss
Still2(order, ss) == SelectSeq(order, LAMBDA x : \E j \in 1..Len(ss) : ss[j].session_id = x)

\* history: the record of set(session_id, query, answer) made at time t
Written(session_id, query, answer, key, t) ==
    [session_id |-> session_id, question |-> normalize(query), answer |-> answer,
     key |-> key, at |-> t]
\* history: a later set of the same question in the same session overwrites
Overwritten(w, session_id, query) ==
    {r \in w : ~(r.session_id = session_id /\ r.question = normalize(query))}
\* history: a set is undone when the call reports its key removed
Undone(w, removed) ==
    {r \in w : \A j \in 1..Len(removed) : removed[j] # r.key}

\* a hit that also restarts the entry's lifetime
record_hit_refreshing(entry, t) == [entry EXCEPT !.hit_count = @ + 1, !.created_at = t]

\* entry.hit_count += 1, at time t
record_hit(entry, t) == [entry EXCEPT !.hit_count = @ + 1]

\* CacheManager.get: what the call does to the cache
cache_get(session_id, query) ==
    LET key == KeyOf[session_id, query]
        i   == IndexOf(cache, key)
    IN  /\ ncalls' = ncalls + 1
        /\ IF i = 0
           THEN /\ stats' = [stats EXCEPT !.misses = @ + 1]
                /\ cache' = cache
                /\ last' = Call("get", session_id, query, None, None, i, <<>>)
                /\ touched' = touched
           ELSE IF _is_expired(cache[i], now)
           THEN /\ cache' = dict_del(cache, i)
                /\ stats' = [stats EXCEPT !.misses = @ + 1, !.evictions = @ + 1]
                /\ last' = Call("get", session_id, query, None, None, i, <<key>>)
                /\ touched' = Still(touched, cache')
           ELSE /\ cache' = [move_to_end(cache, i) EXCEPT ![Len(cache)] = record_hit(@, now)]
                /\ stats' = [stats EXCEPT !.hits = @ + 1]
                /\ last' = Call("get", session_id, query, None, cache[i].answer, i, <<>>)
                /\ touched' = Touch(touched, key)
        /\ written' = Undone(written, last'.removed)
        /\ UNCHANGED <<max_size, ttl, now>>

\* CacheManager.get, called on its own
Get(session_id, query) ==
    /\ ncalls < MaxOps
    /\ cache_get(session_id, query)
    /\ UNCHANGED notCacheVars

\* a set that assigns over the existing entry without deleting it first: the
\* entry keeps its place in the OrderedDict
store_entry_in_place(c, i, entry) ==
    IF i # 0 THEN [c EXCEPT ![i] = entry] ELSE Append(c, entry)

\* set: if key in self._cache: del self._cache[key]; self._cache[key] = entry
store_entry(c, i, entry) ==
    Append(IF i # 0 THEN dict_del(c, i) ELSE c, entry)

\* CacheManager.set: what the call does to the cache
cache_set(session_id, query, answer, metadata) ==
    LET key      == KeyOf[session_id, query]
        i        == IndexOf(cache, key)
        inserted == store_entry(cache, i, CacheEntry(key, query, answer, now, metadata))
        kept     == lru_evict(inserted)
        n        == Len(inserted) - Len(kept)
    IN  /\ ncalls' = ncalls + 1
        /\ cache' = kept
        /\ stats' = [stats EXCEPT !.sets = @ + 1, !.evictions = @ + n]
        /\ last' = Call("set", session_id, query, answer, key, i, KeySeq(SubSeq(inserted, 1, n)))
        /\ touched' = Still(Touch(touched, key), cache')
        /\ written' = Undone(Overwritten(written, session_id, query)
                                \cup {Written(session_id, query, answer, key, now)}, last'.removed)
        /\ UNCHANGED <<max_size, ttl, now>>

\* CacheManager.set, called on its own
Set(session_id, query, answer, metadata) ==
    /\ ncalls < MaxOps
    /\ cache_set(session_id, query, answer, metadata)
    /\ UNCHANGED notCacheVars

\* CacheManager.invalidate
Invalidate(session_id, query) ==
    LET key == KeyOf[session_id, query]
        i   == IndexOf(cache, key)
    IN  /\ ncalls < MaxOps
        /\ ncalls' = ncalls + 1
        /\ cache' = IF i # 0 THEN dict_del(cache, i) ELSE cache
        /\ last' = Call("invalidate", session_id, query, None, i # 0, i,
                        IF i # 0 THEN <<key>> ELSE <<>>)
        /\ touched' = Still(touched, cache')
        /\ written' = Undone(written, last'.removed)
        /\ UNCHANGED <<max_size, ttl, stats, now, notCacheVars>>

\* CacheManager.clear
Clear ==
    /\ ncalls < MaxOps
    /\ ncalls' = ncalls + 1
    /\ cache' = <<>>
    /\ last' = Call("clear", <<>>, <<>>, None, Len(cache), 0, KeySeq(cache))
    /\ touched' = Still(touched, cache')
    /\ written' = Undone(written, last'.removed)
    /\ UNCHANGED <<max_size, ttl, stats, now, notCacheVars>>

\* round(hit_rate, 4): a rate is held as a whole number of ten-thousandths
RateScale == 10000

\* a rate cut off after the fourth decimal place
round_rate_down(hits, total) == (hits * RateScale) \div total

\* round(hits / total, 4): to the nearest ten-thousandth, halves to even
round_rate(hits, total) ==
    LET q == (hits * RateScale) \div total
        r == (hits * RateScale) % total
    IN  IF 2 * r > total \/ (2 * r = total /\ q % 2 = 1) THEN q + 1 ELSE q

\* CacheManager.get_stats: the dict it returns
get_stats ==
    LET total == stats.hits + stats.misses
    IN  [size |-> Len(cache), max_size |-> max_size, ttl |-> ttl,
         total_requests |-> total,
         hit_rate |-> IF total # 0 THEN round_rate(stats.hits, total) ELSE 0,
         hits |-> stats.hits, misses |-> stats.misses, sets |-> stats.sets,
         evictions |-> stats.evictions]

\* CacheManager.get_stats; it changes nothing and is not counted in ncalls
GetStats ==
    /\ last' = Call("get_stats", <<>>, <<>>, None, get_stats, 0, <<>>)
    /\ UNCHANGED <<ncalls, max_size, ttl, cache, stats, now, touched, written, notCacheVars>>

\* a sweep that stops at the first unexpired entry, as if the table were
\* ordered by age
RECURSIVE unexpired_from_head(_, _)
unexpired_from_head(c, reads) ==
    IF c = <<>> THEN <<>>
    ELSE IF _is_expired(Head(c), Head(reads))
         THEN unexpired_from_head(Tail(c), Tail(reads))
         ELSE c

\* the entries of c that the sweep keeps, entry i judged at reads[i]
RECURSIVE unexpired(_, _)
unexpired(c, reads) ==
    IF c = <<>> THEN <<>>
    ELSE (IF _is_expired(Head(c), Head(reads)) THEN <<>> ELSE <<Head(c)>>)
         \o unexpired(Tail(c), Tail(reads))

\* CacheManager.cleanup_expired.  _is_expired reads time.time() once per entry,
\* so the clock may advance while the table is scanned: the entries up to
\* position `turn` are judged at `now`, the later ones at the next clock value.
CleanupExpired ==
    /\ ncalls < MaxOps
    /\ ncalls' = ncalls + 1
    /\ \E turn \in 0..Len(cache), later \in {now, now + 1} :
        /\ later <= MaxTime
        /\ later = now => turn = Len(cache)
        /\ later # now => turn < Len(cache)
        /\ LET reads == [j \in 1..Len(cache) |-> IF j <= turn THEN now ELSE later]
               kept  == unexpired(cache, reads)
               gone  == SelectSeq(KeySeq(cache), LAMBDA k : k \notin Keys(kept))
           IN  /\ cache' = kept
               /\ stats' = [stats EXCEPT !.evictions = @ + Len(gone)]
               /\ last' = Call("cleanup_expired", <<>>, <<>>, None, Len(gone),
                               IF gone = <<>> THEN 0 ELSE IndexOf(cache, gone[1]), gone)
               /\ now' = later
    /\ touched' = Still(touched, cache')
    /\ written' = Undone(written, last'.removed)
    /\ UNCHANGED <<max_size, ttl, notCacheVars>>

\* the clock advances between calls
Tick ==
    /\ now < MaxTime
    /\ now' = now + 1
    /\ last' = Call("tick", <<>>, <<>>, None, None, 0, <<>>)
    /\ UNCHANGED <<ncalls, max_size, ttl, cache, stats, touched, written, notCacheVars>>

(***************************************************************************)
(* SessionManager.  Session ids are the numbers 1, 2, ... in the order     *)
(* uuid4 produced them; 0 stands for an id that was never issued.  Every   *)
(* call reads the clock as `now`; it advances between calls.               *)
(***************************************************************************)
UserIds  == {"u"}
Roles    == {"user", "assistant"}
Contents == {<<"A">>}
\* limit of get_messages: 0 stands for the falsy limits (None, 0)
Limits   == {0, 1}

cacheRest == <<max_size, ttl, cache, stats, last, ncalls, touched, written>>

\* What the last SessionManager call was and did: its name and arguments, its
\* result (meaningless when it raised), the exception it raised, where its
\* session sat in the table when the call began (0: absent) and what it took
\* out, in the order it left: the ids of the sessions deleted from the table
\* or, for an add_message on a live session, the messages it trimmed.
SCall(op, session_id, arg, ret, raised, pos, removed) ==
    [op |-> op, session_id |-> session_id, arg |-> arg, ret |-> ret,
     raised |-> raised, pos |-> pos, removed |-> removed]

\* Message(role, content, timestamp, metadata or {})
Message(role, content, timestamp) ==
    [role |-> role, content |-> content, timestamp |-> timestamp, metadata |-> "{}"]

\* Session(session_id, user_id): no messages, created_at = updated_at = time.time()
Session(session_id, user_id, t) ==
    [session_id |-> session_id, user_id |-> user_id, messages |-> <<>>,
     created_at |-> t, updated_at |-> t, metadata |-> "{}"]

IdSeq(ss) == [i \in 1..Len(ss) |-> ss[i].session_id]
Ids(ss)   == {ss[i].session_id : i \in 1..Len(ss)}

\* position of session_id in the OrderedDict, 0 when absent
SessionIndex(ss, session_id) ==
    IF session_id \in Ids(ss) THEN CHOOSE i \in 1..Len(ss) : ss[i].session_id = session_id
    ELSE 0

\* the ids a call may be given: those issued so far, and one never issued
KnownIds == 0..issued
\* get_or_create_session(session_id=None): no id given
NoId == -1

\* a create_session without the eviction loop
evict_sessions_never(ss) == ss

\* an eviction loop that deletes the newest session
RECURSIVE evict_sessions_newest(_)
evict_sessions_newest(ss) ==
    IF Len(ss) > max_sessions THEN evict_sessions_newest(SubSeq(ss, 1, Len(ss) - 1)) ELSE ss

\* create_session: while len(self._sessions) > self.max_sessions: delete the first
RECURSIVE evict_sessions(_)
evict_sessions(ss) ==
    IF Len(ss) > max_sessions THEN evict_sessions(Tail(ss)) ELSE ss

\* a lookup that leaves the session where it was
touch_session_skipped(ss, i) == ss

\* get_session: self._sessions.move_to_end(session_id)
touch_session(ss, i) == Append(dict_del(ss, i), ss[i])

\* a lookup that reports an expired session absent and leaves it in the table
get_session_keeps_expired(session_id) ==
    LET i == SessionIndex(sessions, session_id)
    IN  IF i = 0
        THEN [table |-> sessions, found |-> FALSE, expired |-> FALSE, pos |-> 0]
        ELSE IF now - sessions[i].updated_at > session_ttl
        THEN [table |-> sessions, found |-> FALSE, expired |-> FALSE, pos |-> i]
        ELSE [table |-> touch_session(sessions, i), found |-> TRUE, expired |-> FALSE, pos |-> i]

\* a lookup that also sets updated_at of the session it finds
get_session_refreshing(session_id) ==
    LET i == SessionIndex(sessions, session_id)
    IN  IF i = 0
        THEN [table |-> sessions, found |-> FALSE, expired |-> FALSE, pos |-> 0]
        ELSE IF now - sessions[i].updated_at > session_ttl
        THEN [table |-> dict_del(sessions, i), found |-> FALSE, expired |-> TRUE, pos |-> i]
        ELSE [table |-> Append(dict_del(sessions, i), [sessions[i] EXCEPT !.updated_at = now]),
              found |-> TRUE, expired |-> FALSE, pos |-> i]

\* SessionManager.get_session as the other methods call it: the table it
\* leaves, whether it returned a session (then the last of the table), whether
\* it found the session expired, and where the session sat.
get_session(session_id) ==
    LET i == SessionIndex(sessions, session_id)
    IN  IF i = 0
        THEN [table |-> sessions, found |-> FALSE, expired |-> FALSE, pos |-> 0]
        ELSE IF now - sessions[i].updated_at > session_ttl
        THEN [table |-> dict_del(sessions, i), found |-> FALSE, expired |-> TRUE, pos |-> i]
        ELSE [table |-> touch_session(sessions, i), found |-> TRUE, expired |-> FALSE, pos |-> i]

\* the ids get_session took out of the table
Expired(g, session_id) == IF g.expired THEN <<session_id>> ELSE <<>>

\* history: the order of use after a call that looked session_id up with
\* result g and left table ss
Used(g, session_id, ss) ==
    Still2(IF g.found THEN Touch(used, session_id) ELSE used, ss)

\* SessionManager.create_session
CreateSession(user_id) ==
    LET session_id == issued + 1
        inserted   == Append(sessions, Session(session_id, user_id, now))
        kept       == evict_sessions(inserted)
        n          == Len(inserted) - Len(kept)
    IN  /\ scalls < MaxOps
        /\ scalls' = scalls + 1
        /\ issued' = session_id
        /\ sessions' = kept
        /\ slast' = SCall("create_session", session_id, user_id, session_id, None, 0,
                          IdSeq(SubSeq(inserted, 1, n)))
        /\ used' = Still2(Touch(used, session_id), sessions')
        /\ UNCHANGED <<max_sessions, max_history, session_ttl, context_window>>
        /\ UNCHANGED <<now, cacheRest, notSessVars>>

\* SessionManager.get_session; the result is a sequence of at most one Session
GetSession(session_id) ==
    LET g == get_session(session_id)
    IN  /\ scalls < MaxOps
        /\ scalls' = scalls + 1
        /\ sessions' = g.table
        /\ slast' = SCall("get_session", session_id, None,
                          IF g.found THEN <<g.table[Len(g.table)]>> ELSE <<>>,
                          None, g.pos, Expired(g, session_id))
        /\ used' = Used(g, session_id, sessions')
        /\ UNCHANGED <<max_sessions, max_history, session_ttl, context_window, issued>>
        /\ UNCHANGED <<now, cacheRest, notSessVars>>

\* SessionManager.get_or_create_session; session_id NoId or an id
GetOrCreateSession(session_id, user_id) ==
    LET g        == IF session_id = NoId
                    THEN [table |-> sessions, found |-> FALSE, expired |-> FALSE, pos |-> 0]
                    ELSE get_session(session_id)
        new_id   == issued + 1
        inserted == Append(g.table, Session(new_id, user_id, now))
        kept     == evict_sessions(inserted)
        n        == Len(inserted) - Len(kept)
        lapsed   == IF g.expired THEN <<session_id>> ELSE <<>>
    IN  /\ scalls < MaxOps
        /\ scalls' = scalls + 1
        /\ IF g.found
           THEN /\ sessions' = g.table
                /\ issued' = issued
                /\ slast' = SCall("get_or_create_session", session_id, user_id, session_id,
                                  None, g.pos, <<>>)
                /\ used' = Still2(Touch(used, session_id), sessions')
           ELSE /\ sessions' = kept
                /\ issued' = new_id
                /\ slast' = SCall("get_or_create_session", session_id, user_id, new_id,
                                  None, g.pos, lapsed \o IdSeq(SubSeq(inserted, 1, n)))
                /\ used' = Still2(Touch(used, new_id), sessions')
        /\ UNCHANGED <<max_sessions, max_history, session_ttl, context_window>>
        /\ UNCHANGED <<now, cacheRest, notSessVars>>

\* a trimming loop that drops one message per round
RECURSIVE trim_history_single(_)
trim_history_single(messages) ==
    IF Len(messages) > max_history * 2
    THEN trim_history_single(Tail(messages))
    ELSE [messages |-> messages, raised |-> None]

\* add_message: while len(session.messages) > self.max_history * 2: pop(0); pop(0)
\* pop(0) on an empty list raises IndexError
RECURSIVE trim_history(_)
trim_history(messages) ==
    IF Len(messages) > max_history * 2
    THEN IF Len(messages) < 2
         THEN [messages |-> <<>>, raised |-> "IndexError"]
         ELSE trim_history(SubSeq(messages, 3, Len(messages)))
    ELSE [messages |-> messages, raised |-> None]

\* an append that puts the message in front of the list
list_append_first(messages, message) == <<message>> \o messages

\* add_message: session.messages.append(message)
list_append(messages, message) == Append(messages, message)

\* SessionManager.add_message: what the call does to the session store
add_message(session_id, role, content) ==
    LET g       == get_session(session_id)
        k       == Len(g.table)
        session == g.table[k]
        appended == list_append(session.messages, Message(role, content, now))
        trimmed == trim_history(appended)
        dropped == SubSeq(appended, 1, Len(appended) - Len(trimmed.messages))
    IN  /\ scalls' = scalls + 1
        /\ IF ~g.found
           THEN /\ sessions' = g.table
                /\ slast' = SCall("add_message", session_id, <<role, content>>, FALSE, None, g.pos,
                                  Expired(g, session_id))
           ELSE /\ sessions' = [g.table EXCEPT ![k] =
                                    [session EXCEPT !.messages = trimmed.messages,
                                                    !.updated_at = now]]
                /\ slast' = SCall("add_message", session_id, <<role, content>>,
                                  IF trimmed.raised = None THEN TRUE ELSE None,
                                  trimmed.raised, g.pos, dropped)
        /\ used' = Used(g, session_id, sessions')
        /\ UNCHANGED <<max_sessions, max_history, session_ttl, context_window, issued>>

\* SessionManager.add_message, called on its own
AddMessage(session_id, role, content) ==
    /\ scalls < MaxOps
    /\ add_message(session_id, role, content)
    /\ UNCHANGED <<now, cacheRest, notSessVars>>

\* messages[-n:]: with n = 0 that is messages[0:], the whole list
py_last(messages, n) ==
    IF n = 0 \/ n >= Len(messages) THEN messages
    ELSE SubSeq(messages, Len(messages) - n + 1, Len(messages))

\* labels given the wrong way round
role_name_swapped(role) ==
    IF role = "user" THEN <<"U+52A9", "U+624B">> ELSE <<"U+7528", "U+6237">>

\* the labels of get_context: U+7528 U+6237 for 'user', U+52A9 U+624B otherwise
role_name(role) ==
    IF role = "user" THEN <<"U+7528", "U+6237">> ELSE <<"U+52A9", "U+624B">>

\* f"{role_name}: {msg.content}" for each message
context_parts(messages) ==
    [j \in 1..Len(messages) |->
        role_name(messages[j].role) \o <<":", " ">> \o messages[j].content]

\* a get_context that slices the last messages before it drops the trailing
\* user message
render_context_window_first(session, include_current) ==
    LET all      == session.messages
        recent   == py_last(all, context_window * 2)
        messages == IF ~include_current /\ recent # <<>> /\ recent[Len(recent)].role = "user"
                    THEN SubSeq(recent, 1, Len(recent) - 1)
                    ELSE recent
    IN  IF all = <<>> \/ messages = <<>> THEN <<>>
        ELSE str_join(<<"\n">>, context_parts(messages))

\* a get_context that keeps a trailing user message when it is the only message
render_context_keeps_only(session, include_current) ==
    LET all      == session.messages
        messages == IF ~include_current /\ Len(all) > 1 /\ all[Len(all)].role = "user"
                    THEN SubSeq(all, 1, Len(all) - 1)
                    ELSE all
        recent_messages == py_last(messages, context_window * 2)
    IN  IF all = <<>> \/ recent_messages = <<>> THEN <<>>
        ELSE str_join(<<"\n">>, context_parts(recent_messages))

\* get_context on the session it found
render_context(session, include_current) ==
    LET all      == session.messages
        messages == IF ~include_current /\ all # <<>> /\ all[Len(all)].role = "user"
                    THEN SubSeq(all, 1, Len(all) - 1)
                    ELSE all
        recent_messages == py_last(messages, context_window * 2)
    IN  IF all = <<>> \/ recent_messages = <<>> THEN <<>>
        ELSE str_join(<<"\n">>, context_parts(recent_messages))

\* SessionManager.get_context: what the call does to the session store
get_context(session_id, include_current) ==
    LET g == get_session(session_id)
    IN  /\ scalls' = scalls + 1
        /\ sessions' = g.table
        /\ slast' = SCall("get_context", session_id, include_current,
                          IF g.found
                          THEN render_context(g.table[Len(g.table)], include_current)
                          ELSE <<>>,
                          None, g.pos, Expired(g, session_id))
        /\ used' = Used(g, session_id, sessions')
        /\ UNCHANGED <<max_sessions, max_history, session_ttl, context_window, issued>>

\* SessionManager.get_context, called on its own
GetContext(session_id, include_current) ==
    /\ scalls < MaxOps
    /\ get_context(session_id, include_current)
    /\ UNCHANGED <<now, cacheRest, notSessVars>>

\* SessionManager.get_messages
GetMessages(session_id, limit) ==
    LET g        == get_session(session_id)
        all      == g.table[Len(g.table)].messages
        messages == IF limit = 0 THEN all ELSE py_last(all, limit)
    IN  /\ scalls < MaxOps
        /\ scalls' = scalls + 1
        /\ sessions' = g.table
        /\ slast' = SCall("get_messages", session_id, limit,
                          IF g.found
                          THEN [j \in 1..Len(messages) |->
                                   [role |-> messages[j].role, content |-> messages[j].content]]
                          ELSE <<>>,
                          None, g.pos, Expired(g, session_id))
        /\ used' = Used(g, session_id, sessions')
        /\ UNCHANGED <<max_sessions, max_history, session_ttl, context_window, issued>>
        /\ UNCHANGED <<now, cacheRest, notSessVars>>

\* SessionManager.clear_session
ClearSession(session_id) ==
    LET g == get_session(session_id)
        k == Len(g.table)
    IN  /\ scalls < MaxOps
        /\ scalls' = scalls + 1
        /\ sessions' = IF g.found
                       THEN [g.table EXCEPT ![k].messages = <<>>, ![k].updated_at = now]
                       ELSE g.table
        /\ slast' = SCall("clear_session", session_id, None, g.found, None, g.pos,
                          Expired(g, session_id))
        /\ used' = Used(g, session_id, sessions')
        /\ UNCHANGED <<max_sessions, max_history, session_ttl, context_window, issued>>
        /\ UNCHANGED <<now, cacheRest, notSessVars>>

\* SessionManager.delete_session
DeleteSession(session_id) ==
    LET i == SessionIndex(sessions, session_id)
    IN  /\ scalls < MaxOps
        /\ scalls' = scalls + 1
        /\ sessions' = IF i # 0 THEN dict_del(sessions, i) ELSE sessions
        /\ slast' = SCall("delete_session", session_id, None, i # 0, None, i,
                          IF i # 0 THEN <<session_id>> ELSE <<>>)
        /\ used' = Still2(used, sessions')
        /\ UNCHANGED <<max_sessions, max_history, session_ttl, context_window, issued>>
        /\ UNCHANGED <<now, cacheRest, notSessVars>>

\* SessionManager.get_session_info
GetSessionInfo(session_id) ==
    LET g == get_session(session_id)
        session == g.table[Len(g.table)]
    IN  /\ scalls < MaxOps
        /\ scalls' = scalls + 1
        /\ sessions' = g.table
        /\ slast' = SCall("get_session_info", session_id, None,
                          IF g.found
                          THEN <<[session_id |-> session.session_id,
                                  user_id |-> session.user_id,
                                  created_at |-> session.created_at,
                                  updated_at |-> session.updated_at,
                                  messages_count |-> Len(session.messages)]>>
                          ELSE <<>>,
                          None, g.pos, Expired(g, session_id))
        /\ used' = Used(g, session_id, sessions')
        /\ UNCHANGED <<max_sessions, max_history, session_ttl, context_window, issued>>
        /\ UNCHANGED <<now, cacheRest, notSessVars>>

\* SessionManager.cleanup_expired: one clock reading, then delete_session for
\* every session found expired
SessionCleanupExpired ==
    LET kept    == SelectSeq(sessions, LAMBDA x : ~(now - x.updated_at > session_ttl))
        expired == SelectSeq(IdSeq(sessions), LAMBDA x : x \notin Ids(kept))
    IN  /\ scalls < MaxOps
        /\ scalls' = scalls + 1
        /\ sessions' = kept
        /\ slast' = SCall("cleanup_expired", 0, None, Len(expired), None,
                          IF expired = <<>> THEN 0 ELSE SessionIndex(sessions, expired[1]),
                          expired)
        /\ used' = Still2(used, sessions')
        /\ UNCHANGED <<max_sessions, max_history, session_ttl, context_window, issued>>
        /\ UNCHANGED <<now, cacheRest, notSessVars>>

\* the clock advances between calls
SessionTick ==
    /\ now < MaxTime
    /\ now' = now + 1
    /\ slast' = SCall("tick", 0, None, None, None, 0, <<>>)
    /\ UNCHANGED <<max_sessions, max_history, session_ttl, context_window, sessions,
                   issued, scalls, used>>
    /\ UNCHANGED <<cacheRest, notSessVars>>

(***************************************************************************)
(* RetrievalOptimizationModule.  The Documents of the index are numbered;  *)
(* Corpus gives their page_content, Metadata their metadata.  A score is   *)
(* an exact fraction, held as                                              *)
(* a whole number of units of 1/RrfScale.                                  *)
(***************************************************************************)
\* page_content of the documents: the first and the fourth have the same text
Corpus == <<"p", "q", "r", "p", "s">>
DocIds == 1..Len(Corpus)

\* _rrf_rerank(..., k: int = 60)
RrfK == 60

RECURSIVE GCD(_, _)
GCD(a, b) == IF b = 0 THEN a ELSE GCD(b, a % b)
RECURSIVE LCMUpTo(_)
LCMUpTo(n) ==
    IF n = 0 THEN 1
    ELSE LET m == LCMUpTo(n - 1) IN (m * (RrfK + n)) \div GCD(m, RrfK + n)
\* the unit of the scores: every 1 / (k + rank + 1) is a whole number of them
RrfScale == LCMUpTo(MaxHits)

\* what an engine does for the query: it returns documents or raises
Returned(docs) == [raised |-> None, docs |-> docs]
Raised(e)      == [raised |-> e, docs |-> <<>>]

\* the lists an engine may return: up to MaxHits documents, none twice
Hits ==
    {h \in UNION {[1..n -> DocIds] : n \in 0..MaxHits} :
        \A i, j \in 1..Len(h) : i # j => h[i] # h[j]}

\* self.vectorstore.similarity_search(query, k=5)
VectorAnswers == {Returned(h) : h \in Hits} \cup {Raised("Exception")}

\* self.bm25_retriever.get_relevant_documents(query) and, consulted when that
\* raises AttributeError, self.bm25_retriever._get_relevant_documents(query,
\* run_manager=None); ValueError stands for the exceptions that are neither
\* AttributeError nor TypeError
Bm25Answers ==
    {[public |-> Returned(h), private |-> Returned(h)] : h \in Hits}
    \cup {[public |-> Raised("AttributeError"), private |-> Returned(h)] : h \in Hits}
    \cup {[public |-> Raised("AttributeError"), private |-> Raised("TypeError")]}
    \cup {[public |-> Raised(e), private |-> Raised(e)] : e \in {"TypeError", "ValueError"}}

\* an identity by the Document object
doc_id_by_object(doc) == doc

\* doc_id = hash(doc.page_content): the same for the same text, and taken to
\* differ for different texts
doc_id_of(doc) == Corpus[doc]

\* a score that counts ranks from 0: 1.0 / (k + rank)
rrf_score_from_zero(rank) == RrfScale \div (RrfK + rank)

\* rrf_score = 1.0 / (k + rank + 1), rank counted from 0
rrf_score(rank) == RrfScale \div (RrfK + rank + 1)

\* doc_scores, a dict in insertion order, as a sequence of (doc_id, score)
ScoreIndex(doc_scores, doc_id) ==
    IF \E i \in 1..Len(doc_scores) : doc_scores[i].doc_id = doc_id
    THEN CHOOSE i \in 1..Len(doc_scores) : doc_scores[i].doc_id = doc_id
    ELSE 0

\* a dict update that overwrites the score
add_score_overwriting(doc_scores, doc_id, score) ==
    LET i == ScoreIndex(doc_scores, doc_id)
    IN  IF i = 0 THEN Append(doc_scores, [doc_id |-> doc_id, score |-> score])
        ELSE [doc_scores EXCEPT ![i].score = score]

\* doc_scores[doc_id] = doc_scores.get(doc_id, 0) + rrf_score
add_score(doc_scores, doc_id, score) ==
    LET i == ScoreIndex(doc_scores, doc_id)
    IN  IF i = 0 THEN Append(doc_scores, [doc_id |-> doc_id, score |-> score])
        ELSE [doc_scores EXCEPT ![i].score = @ + score]

\* for rank, doc in enumerate(docs): ... , from rank on
RECURSIVE score_docs(_, _, _)
score_docs(doc_scores, docs, rank) ==
    IF rank >= Len(docs) THEN doc_scores
    ELSE score_docs(add_score(doc_scores, doc_id_of(docs[rank + 1]), rrf_score(rank)),
                    docs, rank + 1)

\* doc_obj[doc_id]: the last document with that text in the two lists
doc_obj_of(docs, doc_id) ==
    LET at == {i \in 1..Len(docs) : doc_id_of(docs[i]) = doc_id}
    IN  docs[CHOOSE i \in at : \A j \in at : j <= i]

\* a sort that puts an item in front of the items of equal score
insert_by_score_first(sorted, item) ==
    LET n == Cardinality({i \in 1..Len(sorted) : sorted[i].score > item.score})
    IN  SubSeq(sorted, 1, n) \o <<item>> \o SubSeq(sorted, n + 1, Len(sorted))

\* sorted(..., key=score, reverse=True) is stable: an item goes behind the
\* items sorted so far whose score is at least its own
insert_by_score(sorted, item) ==
    LET n == Cardinality({i \in 1..Len(sorted) : sorted[i].score >= item.score})
    IN  SubSeq(sorted, 1, n) \o <<item>> \o SubSeq(sorted, n + 1, Len(sorted))

RECURSIVE sorted_by_score(_)
sorted_by_score(items) ==
    IF items = <<>> THEN <<>>
    ELSE insert_by_score(sorted_by_score(SubSeq(items, 1, Len(items) - 1)),
                         items[Len(items)])

\* RetrievalOptimizationModule._rrf_rerank: the documents in their new order,
\* each with the score written to its metadata['rrf_score']
_rrf_rerank(vector_docs, bm25_docs) ==
    LET doc_scores  == score_docs(score_docs(<<>>, vector_docs, 0), bm25_docs, 0)
        sorted_docs == sorted_by_score(doc_scores)
    IN  [i \in 1..Len(sorted_docs) |->
            [doc |-> doc_obj_of(vector_docs \o bm25_docs, sorted_docs[i].doc_id),
             rrf_score |-> sorted_docs[i].score]]

\* a slice that keeps one document more
py_first_and_one(docs, n) == SubSeq(docs, 1, IF n + 1 < Len(docs) THEN n + 1 ELSE Len(docs))

\* docs[:n], n >= 0
py_first(docs, n) == SubSeq(docs, 1, IF n < Len(docs) THEN n ELSE Len(docs))

\* RetrievalOptimizationModule.hybrid_search: what it returns or raises, and
\* the documents whose rrf_score it wrote
hybrid_search(vector, bm25, top_k) ==
    LET Done(ret, scored) == [ret |-> ret, raised |-> None, scored |-> scored]
        Fused(bm25_docs) ==
            IF vector.docs = <<>> /\ bm25_docs = <<>> THEN Done(<<>>, <<>>)
            ELSE LET reranked_docs == _rrf_rerank(vector.docs, bm25_docs)
                 IN  Done(py_first(reranked_docs, top_k), reranked_docs)
    IN  IF vector.raised # None THEN Done(<<>>, <<>>)
        ELSE IF bm25.public.raised = None THEN Fused(bm25.public.docs)
        ELSE IF bm25.public.raised = "AttributeError"
        THEN IF bm25.private.raised = None THEN Fused(bm25.private.docs)
             ELSE [ret |-> <<>>, raised |-> bm25.private.raised, scored |-> <<>>]
        ELSE IF bm25.public.raised = "TypeError" THEN Done(<<>>, <<>>)
        ELSE [ret |-> <<>>, raised |-> bm25.public.raised, scored |-> <<>>]

\* What the last search was and did: top_k, the filters (none for
\* hybrid_search), the documents returned with the rrf_score each carries
\* (meaningless when it raised), the exception raised.
RCall(op, top_k, filters, ret, raised) ==
    [op |-> op, top_k |-> top_k, filters |-> filters, ret |-> ret, raised |-> raised]

\* hybrid_search(query, top_k)
HybridSearch(top_k) ==
    /\ rcalls < MaxOps
    /\ rcalls' = rcalls + 1
    /\ \E r \in {hybrid_search(vector_answer, bm25_answer, top_k)} :
        /\ rlast' = RCall("hybrid_search", top_k, <<>>, r.ret, r.raised)
        /\ chunks' = [d \in DocIds |->
                        IF \E i \in 1..Len(r.scored) : r.scored[i].doc = d
                        THEN (CHOOSE x \in {r.scored[i] : i \in 1..Len(r.scored)} :
                                  x.doc = d).rrf_score
                        ELSE chunks[d]]
    /\ UNCHANGED <<vector_answer, bm25_answer, notSearchVars>>

\* doc.metadata of the documents, by position: category and difficulty; the
\* second document has no difficulty
Metadata ==
    << [category |-> "soup", difficulty |-> "easy"],
       [category |-> "soup"],
       [category |-> "meat", difficulty |-> "easy"],
       [category |-> "meat", difficulty |-> "hard"],
       [category |-> "soup", difficulty |-> "hard"] >>

\* a filter value: a single value, or a list of values (isinstance(value, list))
Single(v)  == [list |-> FALSE, value |-> v]
AnyOf(vs)  == [list |-> TRUE, value |-> vs]
\* the filters of the searches: dicts, as sequences of (key, value) items
Filters ==
    { <<>>,
      << <<"category", Single("soup")>> >>,
      << <<"category", AnyOf({"soup", "meat"})>> >>,
      << <<"difficulty", Single("easy")>> >>,
      << <<"category", Single("soup")>>, <<"difficulty", AnyOf({"easy", "hard"})>> >>,
      << <<"category", Single("fish")>> >>,
      << <<"dish_name", Single("x")>> >> }

\* a match that lets a document without the key pass
metadata_matches_missing(doc, filters) ==
    \A n \in 1..Len(filters) :
        LET key == filters[n][1]
            value == filters[n][2]
        IN  key \in DOMAIN Metadata[doc] =>
                IF value.list THEN Metadata[doc][key] \in value.value
                ELSE Metadata[doc][key] = value.value

\* metadata_filter: for key, value in filters.items(): ... match = False; break
RECURSIVE metadata_matches(_, _)
metadata_matches(doc, filters) ==
    IF filters = <<>> THEN TRUE
    ELSE LET key   == Head(filters)[1]
             value == Head(filters)[2]
         IN  IF key \in DOMAIN Metadata[doc]
             THEN IF value.list
                  THEN IF Metadata[doc][key] \notin value.value THEN FALSE
                       ELSE metadata_matches(doc, Tail(filters))
                  ELSE IF Metadata[doc][key] # value.value THEN FALSE
                       ELSE metadata_matches(doc, Tail(filters))
             ELSE FALSE

\* a loop that never stops early
RECURSIVE filter_docs_all(_, _, _, _)
filter_docs_all(docs, filters, top_k, filtered_docs) ==
    IF docs = <<>> THEN filtered_docs
    ELSE filter_docs_all(Tail(docs), filters, top_k,
                         IF metadata_matches(Head(docs).doc, filters)
                         THEN Append(filtered_docs, Head(docs))
                         ELSE filtered_docs)

\* metadata_filter: for doc in docs: ... filtered_docs.append(doc);
\* if len(filtered_docs) >= top_k: break
RECURSIVE filter_docs(_, _, _, _)
filter_docs(docs, filters, top_k, filtered_docs) ==
    IF docs = <<>> THEN filtered_docs
    ELSE IF metadata_matches(Head(docs).doc, filters)
    THEN IF Len(filtered_docs) + 1 >= top_k THEN Append(filtered_docs, Head(docs))
         ELSE filter_docs(Tail(docs), filters, top_k, Append(filtered_docs, Head(docs)))
    ELSE filter_docs(Tail(docs), filters, top_k, filtered_docs)

\* a metadata_filter that looks at the first document found before it filters
metadata_filter_first_assumed(vector, bm25, filters, top_k) ==
    LET found == hybrid_search(vector, bm25, top_k * 3)
    IN  IF found.raised # None THEN found
        ELSE IF found.ret = <<>> THEN [ret |-> <<>>, raised |-> "IndexError", scored |-> <<>>]
        ELSE [ret |-> filter_docs(found.ret, filters, top_k, <<>>), raised |-> None,
              scored |-> found.scored]

\* RetrievalOptimizationModule.metadata_filter: what it returns or raises, and
\* the documents whose rrf_score its search wrote
metadata_filter(vector, bm25, filters, top_k) ==
    LET found == hybrid_search(vector, bm25, top_k * 3)
    IN  IF found.raised # None THEN found
        ELSE [ret |-> filter_docs(found.ret, filters, top_k, <<>>), raised |-> None,
              scored |-> found.scored]

\* metadata_filter(query, filters, top_k), once in a run
MetadataFilter(filters, top_k) ==
    /\ rcalls = 0
    /\ rcalls' = rcalls + 1
    /\ \E r \in {metadata_filter(vector_answer, bm25_answer, filters, top_k)} :
        /\ rlast' = RCall("metadata_filter", top_k, filters, r.ret, r.raised)
        /\ chunks' = [d \in DocIds |->
                        IF \E i \in 1..Len(r.scored) : r.scored[i].doc = d
                        THEN (CHOOSE x \in {r.scored[i] : i \in 1..Len(r.scored)} :
                                  x.doc = d).rrf_score
                        ELSE chunks[d]]
    /\ UNCHANGED <<vector_answer, bm25_answer, notSearchVars>>

(***************************************************************************)
(* DataPreparationModule: the parent documents and the lookup from         *)
(* fragments to parents (src/rag_modules/data_preparation.py)              *)
(***************************************************************************)

\* The markdown files the data directory may hold, in the order rglob
\* walks them: path relative to the data directory, the directory part
\* CATAGORY_MAPPING knows (or "" for none), the stem, and the longest
\* run of stars in the text.
Library == <<
    [path |-> "soup/a.md", part |-> "soup", stem |-> "a", stars |-> 0],
    [path |-> "soup/b.md", part |-> "soup", stem |-> "b", stars |-> 2],
    [path |-> "c.md",      part |-> "",     stem |-> "c", stars |-> 5] >>

FileIds == 1..Len(Library)

\* What the loader finds on disk: the directory exists or not, and each
\* file of the library is absent, readable, or raises when opened.
Sources ==
    {[reachable |-> FALSE, status |-> [i \in FileIds |-> "absent"]]}
    \cup {[reachable |-> TRUE, status |-> st] :
             st \in [FileIds -> {"absent", "readable", "unreadable"}]}

\* hashlib.md5(relative_path).hexdigest(): one code per path, no collisions
parent_id_of(path) == <<"md5", path>>

\* Path(data_path).rglob("*.md"): nothing for a missing directory
rglob(source) ==
    IF source.reachable
    THEN SelectSeq([i \in FileIds |-> i], LAMBDA i : source.status[i] # "absent")
    ELSE <<>>

Document(i) ==
    [source    |-> Library[i].path,
     parent_id |-> parent_id_of(Library[i].path),
     doc_type  |-> "parent"]

\* CATAGORY_MAPPING, by code point: soup -> U+6C64 U+54C1, default U+5176 U+4ED6
category_of(part) == IF part = "soup" THEN "U+6C64U+54C1" ELSE "U+5176U+4ED6"

\* the star ladder of _enhance_metadata, labels by code point
difficulty_of(stars) ==
    IF stars >= 5 THEN "U+975EU+5E38U+56F0U+96BE"
    ELSE IF stars = 4 THEN "U+56F0U+96BE"
    ELSE IF stars = 3 THEN "U+4E2DU+7B49"
    ELSE IF stars = 2 THEN "U+7B80U+5355"
    ELSE IF stars = 1 THEN "U+975EU+5E38U+7B80U+5355"
    ELSE "U+672AU+77E5"

_enhance_metadata(i, doc) ==
    [source     |-> doc.source,
     parent_id  |-> doc.parent_id,
     doc_type   |-> doc.doc_type,
     category   |-> category_of(Library[i].part),
     dish_name  |-> Library[i].stem,
     difficulty |-> difficulty_of(Library[i].stars)]

\* load_documents: a file that cannot be read is logged and skipped; the
\* result, whatever it holds, replaces self.documents and is returned.
load_documents(source) ==
    LET ok == SelectSeq(rglob(source), LAMBDA i : source.status[i] = "readable")
        loaded == [k \in 1..Len(ok) |-> _enhance_metadata(ok[k], Document(ok[k]))]
    IN  [documents |-> loaded, ret |-> loaded, raised |-> None]

\* a fragment is modelled by metadata.get("parent_id"); <<>> is the falsy
\* value (key missing, None or "")
NoParent == <<>>

Orphan == parent_id_of("gone.md")

ParentIds == {parent_id_of(Library[i].path) : i \in FileIds} \cup {Orphan, NoParent}

ChunkLists == UNION {[1..n -> ParentIds] : n \in 0..MaxChunks}

\* parent_relevance[parent_id] = parent_relevance.get(parent_id, 0) + 1 on
\* a dict, which keeps the order of first insertion
count_parent(relevance, parent_id) ==
    IF \E k \in 1..Len(relevance) : relevance[k].parent_id = parent_id
    THEN [k \in 1..Len(relevance) |->
              IF relevance[k].parent_id = parent_id
              THEN [parent_id |-> parent_id, count |-> relevance[k].count + 1]
              ELSE relevance[k]]
    ELSE Append(relevance, [parent_id |-> parent_id, count |-> 1])

RECURSIVE parent_relevance_of(_, _)
parent_relevance_of(child_chunks, relevance) ==
    IF child_chunks = <<>> THEN relevance
    ELSE parent_relevance_of(Tail(child_chunks),
             IF Head(child_chunks) # NoParent
             THEN count_parent(relevance, Head(child_chunks))
             ELSE relevance)

\* parent_doc_map: the first stored document with that parent_id, if any
parent_doc_map(docs, parent_id) ==
    LET at == {k \in 1..Len(docs) : docs[k].parent_id = parent_id}
    IN  IF at = {} THEN <<>>
        ELSE <<docs[CHOOSE k \in at : \A m \in at : k <= m]>>

insert_by_count_first(sorted, x) ==
    LET ahead == {k \in 1..Len(sorted) : sorted[k].count > x.count}
    IN  SubSeq(sorted, 1, Cardinality(ahead)) \o <<x>>
        \o SubSeq(sorted, Cardinality(ahead) + 1, Len(sorted))

\* sorted(..., key=count, reverse=True) is stable: an entry goes behind
\* every earlier entry that counts at least as much
insert_by_count(sorted, x) ==
    LET ahead == {k \in 1..Len(sorted) : sorted[k].count >= x.count}
    IN  SubSeq(sorted, 1, Cardinality(ahead)) \o <<x>>
        \o SubSeq(sorted, Cardinality(ahead) + 1, Len(sorted))

RECURSIVE sorted_parent_ids(_, _)
sorted_parent_ids(relevance, sorted) ==
    IF relevance = <<>> THEN sorted
    ELSE sorted_parent_ids(Tail(relevance), insert_by_count(sorted, Head(relevance)))

RECURSIVE collect_parents_unguarded(_, _)
collect_parents_unguarded(docs, sorted) ==
    IF sorted = <<>> THEN [ret |-> <<>>, raised |-> None]
    ELSE IF parent_doc_map(docs, Head(sorted).parent_id) = <<>>
    THEN [ret |-> <<>>, raised |-> "KeyError"]
    ELSE LET rest == collect_parents_unguarded(docs, Tail(sorted))
         IN  [ret |-> parent_doc_map(docs, Head(sorted).parent_id) \o rest.ret,
              raised |-> rest.raised]

\* the closing loop: a parent_id that is not in parent_doc_map is passed over
RECURSIVE collect_parents(_, _)
collect_parents(docs, sorted) ==
    IF sorted = <<>> THEN [ret |-> <<>>, raised |-> None]
    ELSE LET rest == collect_parents(docs, Tail(sorted))
         IN  [ret |-> parent_doc_map(docs, Head(sorted).parent_id) \o rest.ret,
              raised |-> rest.raised]

get_parent_documents(docs, child_chunks) ==
    collect_parents(docs,
        sorted_parent_ids(parent_relevance_of(child_chunks, <<>>), <<>>))

PCall(op, arg, ret, raised) ==
    [op |-> op, arg |-> arg, ret |-> ret, raised |-> raised]

LoadDocuments(source) ==
    /\ \E r \in {load_documents(source)} :
          /\ documents' = r.documents
          /\ plast' = PCall("load_documents", source, r.ret, r.raised)
    /\ UNCHANGED notDataVars

GetParentDocuments(child_chunks) ==
    /\ \E r \in {get_parent_documents(documents, child_chunks)} :
          plast' = PCall("get_parent_documents", child_chunks, r.ret, r.raised)
    /\ UNCHANGED <<documents, notDataVars>>

\* __init__: nothing loaded yet
InitDataIdle ==
    /\ documents = <<>>
    /\ plast = PCall("init", <<>>, <<>>, None)

(***************************************************************************)
(* RecipeRAGSystem.ask_question (src/main.py): one request at a time, from *)
(* the cache lookup to the writes into the session and the cache.  Every   *)
(* call into the cache or the session store is a step of its own, so the   *)
(* clock may advance between them; what the language model, the router and *)
(* the generator answer is drawn freely at the step that calls them.       *)
(***************************************************************************)

\* the session id as the cache sees it
cache_session(session_id) == <<"s", IF session_id = 1 THEN "1" ELSE "2">>

\* the fixed answers of main.py, each a text of its own
NoChunksAnswer         == <<"no-chunks">>
ParentsFailedAnswer    == <<"parents-failed">>
NoDocsAnswer           == <<"no-docs">>
GenerationFailedAnswer == <<"generation-failed">>
StreamFailedMessage    == <<"stream-failed">>
ListEmptyAnswer        == <<"list-empty">>

\* what the generator produces: the whole answer of a call, the k-th chunk
\* of a stream (how many chunks come, and whether the stream fails, is free)
GeneratedAnswers == {<<"x">>}

chunk_at(k) == <<IF k % 2 = 1 THEN "x" ELSE "y">>

\* what query_router returns
Routes == {"list", "detail", "general"}

\* _extract_filters_from_query: at most one category and one difficulty,
\* each a single label
ExtractedFilters ==
    {f \in Filters : \A n \in 1..Len(f) :
        f[n][1] \in {"category", "difficulty"} /\ ~f[n][2].list}

\* metadata["parent_id"] of the fragments of the index, by position
chunk_parent_id(d) == parent_id_of(Library[<<1, 1, 3, 3, 2>>[d]].path)

\* "".join(buffer)
RECURSIVE join_chunks(_)
join_chunks(buffer) ==
    IF buffer = <<>> THEN <<>> ELSE Head(buffer) \o join_chunks(Tail(buffer))

\* generate_list_answer: an apology without documents, else the first
\* three dish names
generate_list_answer(docs) ==
    IF docs = <<>> THEN ListEmptyAnswer
    ELSE <<"recommend">> \o [k \in 1..(IF Len(docs) < 3 THEN Len(docs) ELSE 3) |->
                                docs[k].dish_name]

\* no request yet
\* the questions asked
AskQuestions == {<<"a">>, <<"b">>}

NoRequest ==
    [pc |-> "idle", session_id |-> 0, question |-> <<>>, stream |-> FALSE,
     hit |-> FALSE, context |-> FALSE, route |-> None, kind |-> None,
     answer |-> <<>>, buffer |-> <<>>, yielded |-> <<>>, msgs |-> <<>>,
     sets |-> <<>>, result |-> None]

\* the request is over: ask_question returned or raised, or its generator
\* is exhausted or closed
Finished(r) == r.pc \in {"idle", "done"}

\* the generator handed to the consumer is suspended
Suspended(r) == r.pc \in {"stream_new", "stream_yield", "stream_failed"}

Done(r, result) == [r EXCEPT !.pc = "done", !.result = result]

\* a save that goes straight to the assistant message
Save_assistant_only(r, kind, answer) ==
    [r EXCEPT !.pc = "save_assistant", !.kind = kind, !.answer = answer]

\* answer is set; the session and the cache are written next
Save(r, kind, answer) == [r EXCEPT !.pc = "save_user", !.kind = kind, !.answer = answer]

\* ask_question, lines 215-224: the cache lookup; on a hit the two messages
\* are added next, without the modules ValueError
AskQuestion(session_id, question, stream) ==
    /\ Finished(ask)
    /\ asked < MaxRequests
    /\ asked' = asked + 1
    /\ cache_get(cache_session(session_id), question)
    /\ \E r \in {[NoRequest EXCEPT !.session_id = session_id, !.question = question,
                                   !.stream = stream]} :
          ask' = IF last'.ret # None
                 THEN [Save(r, "cached", last'.ret) EXCEPT !.hit = TRUE]
                 ELSE IF ~built THEN Done(r, "ValueError")
                 ELSE [r EXCEPT !.pc = "compose"]
    /\ UNCHANGED <<built, keyVars, sessVars, searchVars, dataVars, lockVars>>

\* compose_query, lines 150-153: the context of the session
ComposeQuery ==
    /\ ask.pc = "compose"
    /\ get_context(ask.session_id, FALSE)
    /\ ask' = [ask EXCEPT !.pc = "retrieve", !.context = (slast'.ret # <<>>)]
    /\ UNCHANGED <<now, cacheRest, built, asked, keyVars, searchVars, dataVars, lockVars>>

\* What lines 166 and 230-313 make of the request once the model calls
\* (llm: they succeed or one of them raises), the route and the filters are
\* known: completion of the question, routing, rewriting, the search, the
\* parents, and the answers that need no generation.
retrieve(r, llm, route, filters) ==
    LET routed == [r EXCEPT !.route = route]
        found  == IF filters # <<>>
                  THEN metadata_filter(vector_answer, bm25_answer, filters, MaxTopK)
                  ELSE hybrid_search(vector_answer, bm25_answer, MaxTopK)
        parents == get_parent_documents(documents,
                       [k \in 1..Len(found.ret) |-> chunk_parent_id(found.ret[k].doc)])
    IN  IF llm = "raises" THEN Done(r, "Exception")
        ELSE IF found.raised # None THEN Done(routed, found.raised)
        ELSE IF found.ret = <<>> THEN Save(routed, "no_chunks", NoChunksAnswer)
        ELSE IF parents.raised # None THEN Save(routed, "parents_failed", ParentsFailedAnswer)
        ELSE IF route = "list"
        THEN Save(routed, IF parents.ret = <<>> THEN "list_empty" ELSE "answer",
                  generate_list_answer(parents.ret))
        ELSE IF parents.ret = <<>> THEN Save(routed, "no_docs", NoDocsAnswer)
        ELSE IF r.stream THEN [routed EXCEPT !.pc = "stream_new"]
        ELSE [routed EXCEPT !.pc = "generate"]

\* ask_question, lines 227-317
Retrieve(llm, route, filters) ==
    /\ ask.pc = "retrieve"
    /\ ask' = retrieve(ask, llm, route, filters)
    /\ UNCHANGED <<built, asked, keyVars, cacheVars, sessVars, searchVars, dataVars, lockVars>>

\* lines 320-327: the answer of the generator, or the failure answer when
\* it raises
Generate(raises, answer) ==
    /\ ask.pc = "generate"
    /\ ask' = IF raises THEN Save(ask, "generation_failed", GenerationFailedAnswer)
              ELSE Save(ask, "answer", answer)
    /\ UNCHANGED <<built, asked, keyVars, cacheVars, sessVars, searchVars, dataVars, lockVars>>

\* an exception of a write: inside the generator it is caught and the
\* failure message is yielded, otherwise it leaves ask_question
write_failed(r, raised) ==
    IF r.stream /\ r.kind = "streamed"
    THEN [r EXCEPT !.pc = "stream_failed", !.kind = "generation_failed",
                   !.yielded = Append(@, StreamFailedMessage)]
    ELSE Done(r, raised)

\* add_message(session_id, "user", question)
SaveUser ==
    /\ ask.pc = "save_user"
    /\ add_message(ask.session_id, "user", ask.question)
    /\ ask' = IF slast'.raised # None THEN write_failed(ask, slast'.raised)
              ELSE [ask EXCEPT !.pc = "save_assistant",
                               !.msgs = Append(@, <<"user", ask.question>>)]
    /\ UNCHANGED <<now, cacheRest, built, asked, keyVars, searchVars, dataVars, lockVars>>

\* add_message(session_id, "assistant", answer); a cache hit returns here
SaveAssistant ==
    /\ ask.pc = "save_assistant"
    /\ add_message(ask.session_id, "assistant", ask.answer)
    /\ ask' = IF slast'.raised # None THEN write_failed(ask, slast'.raised)
              ELSE IF ask.hit
              THEN Done([ask EXCEPT !.msgs = Append(@, <<"assistant", ask.answer>>)],
                        "returned")
              ELSE [ask EXCEPT !.pc = "save_cache",
                               !.msgs = Append(@, <<"assistant", ask.answer>>)]
    /\ UNCHANGED <<now, cacheRest, built, asked, keyVars, searchVars, dataVars, lockVars>>

\* cache_manager.set(session_id, question, answer, metadata={"route": ...});
\* ask_question returns the answer, the generator ends
SaveCache ==
    /\ ask.pc = "save_cache"
    /\ cache_set(cache_session(ask.session_id), ask.question, ask.answer, ask.route)
    /\ ask' = Done([ask EXCEPT !.sets = Append(@, ask.answer)],
                   IF ask.kind = "streamed" THEN "exhausted" ELSE "returned")
    /\ UNCHANGED <<built, asked, keyVars, sessVars, searchVars, dataVars, lockVars>>

\* a generator that treats a failed generation like its end
stream_next_saves_failure(r, event, chunk) ==
    IF r.pc = "stream_failed" THEN Done(r, "exhausted")
    ELSE IF event = "chunk"
    THEN [r EXCEPT !.pc = "stream_yield", !.buffer = Append(@, chunk),
                   !.yielded = Append(@, chunk)]
    ELSE IF event = "raises"
    THEN Save([r EXCEPT !.yielded = Append(@, StreamFailedMessage)],
              "generation_failed", StreamFailedMessage)
    ELSE Save(r, "streamed", join_chunks(r.buffer))

\* _ask_question_stream resumed by next(): the generator of the answer
\* yields a chunk (buffered, then yielded on), raises (the failure message
\* is yielded) or ends (the buffer is joined and the writes follow); after
\* the failure message the generator just ends
stream_next(r, event, chunk) ==
    IF r.pc = "stream_failed" THEN Done(r, "exhausted")
    ELSE IF event = "chunk"
    THEN [r EXCEPT !.pc = "stream_yield", !.buffer = Append(@, chunk),
                   !.yielded = Append(@, chunk)]
    ELSE IF event = "raises"
    THEN [r EXCEPT !.pc = "stream_failed", !.kind = "generation_failed",
                   !.yielded = Append(@, StreamFailedMessage)]
    ELSE Save(r, "streamed", join_chunks(r.buffer))

\* the consumer asks the generator for the next chunk
StreamNext(event) ==
    /\ Suspended(ask)
    /\ event = "chunk" => Len(ask.yielded) < MaxTokens
    /\ ask' = stream_next(ask, event, chunk_at(Len(ask.yielded) + 1))
    /\ UNCHANGED <<built, asked, keyVars, cacheVars, sessVars, searchVars, dataVars, lockVars>>

\* the consumer abandons the generator: GeneratorExit is raised at the
\* yield where it is suspended, which except Exception does not catch
StreamClose ==
    /\ Suspended(ask)
    /\ ask' = Done(ask, "closed")
    /\ UNCHANGED <<built, asked, keyVars, cacheVars, sessVars, searchVars, dataVars, lockVars>>

\* RecipeRAGSystem.__init__: no module built, nothing asked
InitAskIdle ==
    /\ built = FALSE
    /\ ask = NoRequest
    /\ asked = 0

(***************************************************************************)
(* Locks.  Each component guards its table with one threading.RLock; the   *)
(* methods are reduced to what they do with the locks: acquire and release *)
(* (the `with self._lock:` blocks), calls of other methods, and calls of  *)
(* the external collaborators (engines, language model).  A method with    *)
(* branches or a loop has one instruction list per way through it.         *)
(***************************************************************************)
Threads == {"t1", "t2"}
NoThread == "none"

Locks == {"cache", "session"}

Acq(lock)  == <<"acquire", lock>>
Rel(lock)  == <<"release", lock>>
CallOp(op) == <<"call", op>>
Ext(who)   == <<"external", who>>

\* `with self._lock:` around a body
WithLock(lock, body) == <<Acq(lock)>> \o body \o <<Rel(lock)>>

Repeat(instr, n) == [i \in 1..n |-> instr]

\* CacheManager: every method takes the lock once around its body;
\* get_cached_response and cache_response call get and set
CachePrograms ==
    [op \in {"cache.get", "cache.set", "cache.invalidate", "cache.clear",
             "cache.cleanup_expired", "cache.get_stats", "cache.get_hot_queries"} |->
        {WithLock("cache", <<>>)}]
    @@ [op \in {"cache.get_cached_response"} |-> {<<CallOp("cache.get")>>}]
    @@ [op \in {"cache.cache_response"} |-> {<<CallOp("cache.set")>>}]

\* SessionManager: the methods that look a session up call get_session
\* inside their own `with self._lock:`; get_or_create_session calls
\* get_session, create_session or both; cleanup_expired calls
\* delete_session once per expired session; active_session_count takes no
\* lock
SessionPrograms ==
    [op \in {"session.create_session", "session.get_session", "session.delete_session"} |->
        {WithLock("session", <<>>)}]
    @@ [op \in {"session.add_message", "session.get_context", "session.get_messages",
                "session.clear_session", "session.get_session_info"} |->
        {WithLock("session", <<CallOp("session.get_session")>>)}]
    @@ [op \in {"session.get_or_create_session"} |->
        {WithLock("session", <<CallOp("session.get_session")>>),
         WithLock("session", <<CallOp("session.get_session"),
                               CallOp("session.create_session")>>),
         WithLock("session", <<CallOp("session.create_session")>>)}]
    @@ [op \in {"session.cleanup_expired"} |->
        {WithLock("session", Repeat(CallOp("session.delete_session"), n)) :
            n \in 0..MaxSessions}]
    @@ [op \in {"session.active_session_count"} |-> {<<>>}]

\* the writes that end a request: two messages, and the cache entry
SaveCalls == <<CallOp("session.add_message"), CallOp("session.add_message"),
               CallOp("cache.set")>>

\* ask_question up to the search: lookup, completion, routing and
\* rewriting, search
SearchCalls == <<CallOp("cache.get"), CallOp("system.compose_query"), Ext("llm"),
                 Ext("search")>>

SystemPrograms_locked ==
    [op \in {"system.compose_query"} |->
        {<<CallOp("session.get_context")>>,
         <<CallOp("session.get_context"), Ext("llm")>>}]
    @@ [op \in {"system.ask_question"} |->
        {WithLock("cache", <<CallOp("cache.get"), CallOp("session.add_message"),
                             CallOp("session.add_message")>>),
         WithLock("cache", SearchCalls \o <<Ext("parents"), Ext("generate")>> \o SaveCalls)}]
    @@ [op \in {"system._ask_question_stream"} |->
        {<<Ext("generate")>> \o SaveCalls}]

\* RecipeRAGSystem: compose_query reads the context and may ask the model;
\* ask_question ends after a cache hit, without modules, with an exception
\* of the model or the search, with a fallback, with a generated answer, or
\* by handing out the generator; the generator writes after generating, or
\* not at all
SystemPrograms ==
    [op \in {"system.compose_query"} |->
        {<<CallOp("session.get_context")>>,
         <<CallOp("session.get_context"), Ext("llm")>>}]
    @@ [op \in {"system.ask_question"} |->
        {<<CallOp("cache.get"), CallOp("session.add_message"),
           CallOp("session.add_message")>>,
         <<CallOp("cache.get")>>,
         <<CallOp("cache.get"), CallOp("system.compose_query"), Ext("llm")>>,
         SearchCalls,
         SearchCalls \o SaveCalls,
         SearchCalls \o <<Ext("parents")>> \o SaveCalls,
         SearchCalls \o <<Ext("parents"), Ext("generate")>> \o SaveCalls,
         SearchCalls \o <<Ext("parents")>>}]
    @@ [op \in {"system._ask_question_stream"} |->
        {<<Ext("generate")>> \o SaveCalls,
         <<Ext("generate")>>}]

Programs == CachePrograms @@ SessionPrograms @@ SystemPrograms

\* the component a method belongs to; what is no method of the three is
\* an external collaborator
component_of(op) ==
    IF op \in DOMAIN CachePrograms THEN "cache"
    ELSE IF op \in DOMAIN SessionPrograms THEN "session"
    ELSE IF op \in DOMAIN SystemPrograms THEN "system"
    ELSE "external"

Frame(op, prog) == [op |-> op, prog |-> prog, ip |-> 1]

Top(t) == stack[t][Len(stack[t])]

\* the thread stands before this instruction of its innermost call
At(t, kind) ==
    /\ stack[t] # <<>>
    /\ Top(t).ip <= Len(Top(t).prog)
    /\ Top(t).prog[Top(t).ip][1] = kind

Operand(t) == Top(t).prog[Top(t).ip][2]

\* the stack with the innermost call one instruction further
Advanced1(t) == [stack[t] EXCEPT ![Len(stack[t])].ip = @ + 1]

\* a lock that cannot be taken twice by its owner (threading.Lock)
can_acquire_plain(lock, t) == holder[lock].owner = NoThread

\* threading.RLock: free, or owned by the thread itself
can_acquire(lock, t) == holder[lock].owner \in {NoThread, t}

\* RLock.acquire: the owner and one more level of recursion
acquired(lock, t) ==
    [holder EXCEPT ![lock] = [owner |-> t, count |-> @.count + 1]]

\* RLock.release: one level less; free at level zero
released(lock, t) ==
    [holder EXCEPT ![lock] = IF @.count = 1 THEN [owner |-> NoThread, count |-> 0]
                              ELSE [owner |-> @.owner, count |-> @.count - 1]]

\* a thread calls a public method
Invoke(t, op) ==
    /\ stack[t] = <<>>
    /\ \E prog \in Programs[op] : stack' = [stack EXCEPT ![t] = <<Frame(op, prog)>>]
    /\ UNCHANGED <<holder, waiting, creating, notLockVars>>

\* entering `with self._lock:`; the thread waits while another holds it
Acquire(t) ==
    /\ At(t, "acquire")
    /\ can_acquire(Operand(t), t)
    /\ holder' = acquired(Operand(t), t)
    /\ stack' = [stack EXCEPT ![t] = Advanced1(t)]
    /\ UNCHANGED <<waiting, creating, notLockVars>>

\* leaving `with self._lock:`
Release(t) ==
    /\ At(t, "release")
    /\ holder' = released(Operand(t), t)
    /\ stack' = [stack EXCEPT ![t] = Advanced1(t)]
    /\ UNCHANGED <<waiting, creating, notLockVars>>

\* a call of another method of the three components
CallMethod(t) ==
    /\ At(t, "call")
    /\ \E prog \in Programs[Operand(t)] :
          stack' = [stack EXCEPT ![t] = Append(Advanced1(t), Frame(Operand(t), prog))]
    /\ UNCHANGED <<holder, waiting, creating, notLockVars>>

\* a call of an external collaborator
CallExternal(t) ==
    /\ At(t, "external")
    /\ stack' = [stack EXCEPT ![t] = Append(Advanced1(t), Frame(Operand(t), <<>>))]
    /\ UNCHANGED <<holder, waiting, creating, notLockVars>>

\* a method returns
Return(t) ==
    /\ stack[t] # <<>>
    /\ component_of(Top(t).op) # "external"
    /\ Top(t).ip > Len(Top(t).prog)
    /\ stack' = [stack EXCEPT ![t] = SubSeq(@, 1, Len(@) - 1)]
    /\ UNCHANGED <<holder, waiting, creating, notLockVars>>

\* an external collaborator answers (or raises); nothing says when
ExternalReturn(t) ==
    /\ stack[t] # <<>>
    /\ component_of(Top(t).op) = "external"
    /\ stack' = [stack EXCEPT ![t] = SubSeq(@, 1, Len(@) - 1)]
    /\ UNCHANGED <<holder, waiting, creating, notLockVars>>

\* what a thread does on its own once it is inside a method
Step(t) == Acquire(t) \/ Release(t) \/ CallMethod(t) \/ CallExternal(t) \/ Return(t)

(***************************************************************************)
(* Two threads in ask_question.  The interpreter runs one thread at a      *)
(* time and may switch between any two calls; ask is the request of the    *)
(* thread that runs, waiting the request of the other.                     *)
(***************************************************************************)
\* ask_question entered by a thread that has no request under way; there
\* are a first request and up to MaxRequests more
AskInThread(session_id, question) ==
    /\ Finished(ask)
    /\ asked <= MaxRequests
    /\ asked' = asked + 1
    /\ cache_get(cache_session(session_id), question)
    /\ \E r \in {[NoRequest EXCEPT !.session_id = session_id, !.question = question]} :
          ask' = IF last'.ret # None
                 THEN [Save(r, "cached", last'.ret) EXCEPT !.hit = TRUE]
                 ELSE IF ~built THEN Done(r, "ValueError")
                 ELSE [r EXCEPT !.pc = "compose"]
    /\ UNCHANGED <<built, keyVars, sessVars, searchVars, dataVars, lockVars>>

\* the interpreter switches to the other thread
Switch ==
    /\ ask # waiting
    /\ ask' = waiting
    /\ waiting' = ask
    /\ UNCHANGED <<built, asked, holder, stack, creating>>
    /\ UNCHANGED <<keyVars, cacheVars, sessVars, searchVars, dataVars>>

(***************************************************************************)
(* create_session statement by statement, and active_session_count read    *)
(* by another thread in between.                                           *)
(***************************************************************************)
\* no create_session under way
NoCreate == [pc |-> "idle", thread |-> NoThread, session_id |-> 0, user_id |-> None,
             removed |-> <<>>]

\* create_session, lines 116-125: the lock is taken, the Session is made and
\* put into the table
CreateInsert(t, user_id) ==
    /\ creating.pc = "idle"
    /\ scalls < MaxOps
    /\ can_acquire("session", t)
    /\ holder' = acquired("session", t)
    /\ issued' = issued + 1
    /\ sessions' = Append(sessions, Session(issued', user_id, now))
    /\ used' = Touch(used, issued')
    /\ creating' = [pc |-> "evict", thread |-> t, session_id |-> issued',
                    user_id |-> user_id, removed |-> <<>>]
    /\ UNCHANGED <<max_sessions, max_history, session_ttl, context_window, slast, scalls>>
    /\ UNCHANGED <<stack, waiting, now, cacheRest, keyVars, searchVars, dataVars, askVars>>

\* one round of the loop of lines 129-132: the oldest session is deleted
CreateEvict ==
    /\ creating.pc = "evict"
    /\ Len(sessions) > max_sessions
    /\ sessions' = Tail(sessions)
    /\ used' = Still2(used, sessions')
    /\ creating' = [creating EXCEPT !.removed = Append(@, sessions[1].session_id)]
    /\ UNCHANGED <<max_sessions, max_history, session_ttl, context_window, issued,
                   slast, scalls>>
    /\ UNCHANGED <<holder, stack, waiting, now, cacheRest, keyVars, searchVars, dataVars,
                   askVars>>

\* the loop is left, the lock is released, the id is returned (line 133)
CreateReturn ==
    /\ creating.pc = "evict"
    /\ Len(sessions) <= max_sessions
    /\ holder' = released("session", creating.thread)
    /\ scalls' = scalls + 1
    /\ slast' = SCall("create_session", creating.session_id, creating.user_id,
                      creating.session_id, None, 0, creating.removed)
    /\ creating' = NoCreate
    /\ UNCHANGED <<max_sessions, max_history, session_ttl, context_window, sessions,
                   issued, used>>
    /\ UNCHANGED <<stack, waiting, now, cacheRest, keyVars, searchVars, dataVars, askVars>>

\* the property active_session_count, read by a thread that is not inside
\* create_session: len(self._sessions), without the lock
ActiveSessionCount(t) ==
    /\ t # creating.thread
    /\ scalls < MaxOps
    /\ scalls' = scalls + 1
    /\ slast' = SCall("active_session_count", 0, None, Len(sessions), None, 0, <<>>)
    /\ UNCHANGED <<max_sessions, max_history, session_ttl, context_window, sessions,
                   issued, used>>
    /\ UNCHANGED <<now, cacheRest, notSessVars>>

\* no thread is in any method, both locks are free
InitLockIdle ==
    /\ holder = [lock \in Locks |-> [owner |-> NoThread, count |-> 0]]
    /\ stack = [t \in Threads |-> <<>>]
    /\ waiting = NoRequest
    /\ creating = NoCreate

InitSearchIdle ==
    /\ vector_answer = Returned(<<>>)
    /\ bm25_answer = [public |-> Returned(<<>>), private |-> Returned(<<>>)]
    /\ chunks = [d \in DocIds |-> 0]
    /\ rlast = RCall("init", 0, <<>>, <<>>, None)
    /\ rcalls = 0

InitSessIdle ==
    /\ max_sessions = 0
    /\ max_history = 0
    /\ session_ttl = 0
    /\ context_window = 0
    /\ sessions = <<>>
    /\ issued = 0
    /\ slast = SCall("init", 0, None, None, None, 0, <<>>)
    /\ scalls = 0
    /\ used = <<>>

InitCacheIdle ==
    /\ max_size = 0
    /\ ttl = 0
    /\ cache = <<>>
    /\ stats = [hits |-> 0, misses |-> 0, sets |-> 0, evictions |-> 0]
    /\ now = 0
    /\ last = Call("init", <<>>, <<>>, None, None, 0, <<>>)
    /\ touched = <<>>
    /\ written = {}
    /\ ncalls = 0

\* the questions of SpecKey and, for each normal form, its spellings among
\* them, evaluated once
AllQuestions == StringsUpTo(MaxLen)
Spellings    == [n \in {normalize(q) : q \in AllQuestions} |->
                    {q \in AllQuestions : normalize(q) = n}]

InitKey ==
    /\ kin \in SessionIds \X AllQuestions
    /\ kout = [raw |-> <<>>, norm |-> <<>>, variant |-> <<>>, punctuated |-> <<>>]
    /\ InitCacheIdle
    /\ InitSessIdle
    /\ InitSearchIdle
    /\ InitDataIdle
    /\ InitAskIdle
    /\ InitLockIdle

KeyOfRaw ==
    /\ kout.raw = <<>>
    /\ kout' = [kout EXCEPT !.raw = _generate_key(kin[1], kin[2])]
    /\ UNCHANGED <<kin, notKeyVars>>

KeyOfNormalized ==
    /\ kout.norm = <<>>
    /\ kout' = [kout EXCEPT !.norm = _generate_key(kin[1], normalize(kin[2]))]
    /\ UNCHANGED <<kin, notKeyVars>>

\* The key of another spelling of the same question (same normalization).
KeyOfVariant ==
    /\ kout.variant = <<>>
    /\ \E q2 \in Spellings[normalize(kin[2])] :
        kout' = [kout EXCEPT !.variant = _generate_key(kin[1], q2)]
    /\ UNCHANGED <<kin, notKeyVars>>

\* The key of the question with a punctuation mark put behind it.
KeyOfPunctuated ==
    /\ kout.punctuated = <<>>
    /\ \E mark \in Punctuation :
        kout' = [kout EXCEPT !.punctuated = _generate_key(kin[1], Append(kin[2], mark))]
    /\ UNCHANGED <<kin, notKeyVars>>

NextKey == KeyOfRaw \/ KeyOfNormalized \/ KeyOfVariant \/ KeyOfPunctuated

SpecKey == InitKey /\ [][NextKey]_vars

InitKeyIdle ==
    /\ kin = <<>>
    /\ kout = <<>>

\* CacheManager.__init__
InitCache ==
    /\ max_size \in 0..MaxSize
    /\ ttl = CacheTtl
    /\ cache = <<>>
    /\ stats = [hits |-> 0, misses |-> 0, sets |-> 0, evictions |-> 0]
    /\ now = 0
    /\ last = Call("init", <<>>, <<>>, None, None, 0, <<>>)
    /\ touched = <<>>
    /\ written = {}
    /\ ncalls = 0
    /\ InitKeyIdle
    /\ InitSessIdle
    /\ InitSearchIdle
    /\ InitDataIdle
    /\ InitAskIdle
    /\ InitLockIdle

NextCache ==
    \/ \E r \in Requests : Get(r[1], r[2])
    \/ \E r \in Requests, a \in Answers, m \in Metadatas : Set(r[1], r[2], a, m)
    \/ \E r \in Requests : Invalidate(r[1], r[2])
    \/ Clear
    \/ CleanupExpired
    \/ Tick

SpecCache == InitCache /\ [][NextCache]_vars

\* The cache with its statistics read at any moment; one answer is enough
\* here, the counters do not depend on it.
NextStats ==
    \/ \E r \in Requests : Get(r[1], r[2])
    \/ \E r \in Requests, m \in Metadatas : Set(r[1], r[2], "x", m)
    \/ \E r \in Requests : Invalidate(r[1], r[2])
    \/ Clear
    \/ CleanupExpired
    \/ GetStats
    \/ Tick

SpecStats == InitCache /\ [][NextStats]_vars

\* SessionManager.__init__
InitSess ==
    /\ max_sessions \in 0..MaxSessions
    /\ max_history \in 1..HistoryTurns
    /\ session_ttl = SessionTtl
    /\ context_window = ContextTurns
    /\ sessions = <<>>
    /\ issued = 0
    /\ slast = SCall("init", 0, None, None, None, 0, <<>>)
    /\ scalls = 0
    /\ used = <<>>
    /\ InitCacheIdle
    /\ InitKeyIdle
    /\ InitSearchIdle
    /\ InitDataIdle
    /\ InitAskIdle
    /\ InitLockIdle

NextSess ==
    \/ \E u \in UserIds : CreateSession(u)
    \/ \E id \in KnownIds : GetSession(id)
    \/ \E id \in KnownIds \cup {NoId}, u \in UserIds : GetOrCreateSession(id, u)
    \/ \E id \in KnownIds, r \in Roles, c \in Contents : AddMessage(id, r, c)
    \/ \E id \in KnownIds, b \in BOOLEAN : GetContext(id, b)
    \/ \E id \in KnownIds, n \in Limits : GetMessages(id, n)
    \/ \E id \in KnownIds : ClearSession(id)
    \/ \E id \in KnownIds : DeleteSession(id)
    \/ \E id \in KnownIds : GetSessionInfo(id)
    \/ SessionCleanupExpired
    \/ SessionTick

SpecSess == InitSess /\ [][NextSess]_vars

\* the contents of the messages of a conversation
Texts == {<<"A">>, <<"B">>, <<"C">>}

\* SessionManager.__init__ followed by one create_session: a conversation
\* about to begin; scalls counts the calls made from here on
InitContext ==
    /\ max_sessions = MaxSessions
    /\ max_history = HistoryTurns
    /\ session_ttl = SessionTtl
    /\ context_window \in 1..ContextTurns
    /\ sessions = <<Session(1, "u", 0)>>
    /\ issued = 1
    /\ slast = SCall("create_session", 1, "u", 1, None, 0, <<>>)
    /\ scalls = 0
    /\ used = <<1>>
    /\ InitCacheIdle
    /\ InitKeyIdle
    /\ InitSearchIdle
    /\ InitDataIdle
    /\ InitAskIdle
    /\ InitLockIdle

NextContext ==
    \/ \E id \in 1..issued, r \in Roles, c \in Texts : AddMessage(id, r, c)
    \/ \E id \in KnownIds, b \in BOOLEAN : GetContext(id, b)
    \/ SessionTick

SpecContext == InitContext /\ [][NextContext]_vars

\* SessionManager.__init__ with any max_history and context_window from 0 up
\* (the constructor accepts every int), followed by one create_session
InitConfigured ==
    /\ max_sessions = MaxSessions
    /\ max_history \in 0..HistoryTurns
    /\ session_ttl = SessionTtl
    /\ context_window \in 0..ContextTurns
    /\ sessions = <<Session(1, "u", 0)>>
    /\ issued = 1
    /\ slast = SCall("create_session", 1, "u", 1, None, 0, <<>>)
    /\ scalls = 0
    /\ used = <<1>>
    /\ InitCacheIdle
    /\ InitKeyIdle
    /\ InitSearchIdle
    /\ InitDataIdle
    /\ InitAskIdle
    /\ InitLockIdle

SpecConfigured == InitConfigured /\ [][NextContext]_vars

\* RetrievalOptimizationModule over an index whose engines answer the query
\* in one of the ways above; no document carries an rrf_score yet (0)
InitSearch ==
    /\ vector_answer \in VectorAnswers
    /\ bm25_answer \in Bm25Answers
    /\ chunks = [d \in DocIds |-> 0]
    /\ rlast = RCall("init", 0, <<>>, <<>>, None)
    /\ rcalls = 0
    /\ InitKeyIdle
    /\ InitCacheIdle
    /\ InitSessIdle
    /\ InitDataIdle
    /\ InitAskIdle
    /\ InitLockIdle

NextSearch == \E top_k \in 1..MaxTopK : HybridSearch(top_k)

SpecSearch == InitSearch /\ [][NextSearch]_vars

\* one search in a run, plain or filtered
NextFilter ==
    \/ rcalls = 0 /\ \E top_k \in 1..MaxTopK : HybridSearch(top_k)
    \/ \E filters \in Filters, top_k \in 1..MaxTopK : MetadataFilter(filters, top_k)

SpecFilter == InitSearch /\ [][NextFilter]_vars

\* The parent documents: loads from any state of the data directory and
\* parent lookups for any list of fragments.
InitData ==
    /\ InitDataIdle
    /\ InitAskIdle
    /\ InitLockIdle
    /\ InitKeyIdle
    /\ InitCacheIdle
    /\ InitSessIdle
    /\ InitSearchIdle

NextData ==
    \/ \E source \in Sources : LoadDocuments(source)
    \/ \E child_chunks \in ChunkLists : GetParentDocuments(child_chunks)

SpecData == InitData /\ [][NextData]_vars

\* the engines of the requests: both find fragments, neither finds any, the
\* vector engine fails, the lexical engine fails, both find fragments of
\* the third file only
AskEngines ==
    { <<Returned(<<1, 3>>), Returned(<<3, 5>>)>>,
      <<Returned(<<>>),     Returned(<<>>)>>,
      <<Raised("Exception"), Returned(<<3>>)>>,
      <<Returned(<<1>>),    Raised("ValueError")>>,
      <<Returned(<<3>>),    Returned(<<4>>)>> }

\* The system with its components constructed and a session created, with
\* or without the knowledge base built; the third file may have been
\* unreadable when the documents were loaded.
InitAsk ==
    /\ max_size = MaxSize
    /\ ttl = CacheTtl
    /\ cache = <<>>
    /\ stats = [hits |-> 0, misses |-> 0, sets |-> 0, evictions |-> 0]
    /\ now = 0
    /\ last = Call("init", <<>>, <<>>, None, None, 0, <<>>)
    /\ touched = <<>>
    /\ written = {}
    /\ ncalls = 0
    /\ max_sessions = MaxSessions
    /\ max_history = HistoryTurns
    /\ session_ttl = SessionTtl
    /\ context_window = ContextTurns
    /\ sessions = <<Session(1, "u", 0)>>
    /\ issued = 1
    /\ slast = SCall("create_session", 1, "u", 1, None, 0, <<>>)
    /\ scalls = 0
    /\ used = <<1>>
    /\ built \in BOOLEAN
    /\ \E e \in (IF built THEN AskEngines ELSE {<<Returned(<<>>), Returned(<<>>)>>}) :
          /\ vector_answer = e[1]
          /\ bm25_answer = [public |-> e[2], private |-> e[2]]
    /\ chunks = [d \in DocIds |-> 0]
    /\ rlast = RCall("init", 0, <<>>, <<>>, None)
    /\ rcalls = 0
    /\ \E st \in {"readable", "unreadable"} :
          documents = IF built
                      THEN load_documents([reachable |-> TRUE,
                               status |-> [i \in FileIds |->
                                   IF i = 3 THEN st ELSE "readable"]]).documents
                      ELSE <<>>
    /\ plast = PCall("init", <<>>, <<>>, None)
    /\ ask = NoRequest
    /\ asked = 0
    /\ InitKeyIdle
    /\ InitLockIdle

NextAsk ==
    \/ \E q \in AskQuestions, stream \in BOOLEAN : AskQuestion(1, q, stream)
    \/ ComposeQuery
    \/ \E llm \in {"ok", "raises"}, route \in Routes, filters \in ExtractedFilters :
          Retrieve(llm, route, filters)
    \/ \E raises \in BOOLEAN, answer \in GeneratedAnswers : Generate(raises, answer)
    \/ SaveUser
    \/ SaveAssistant
    \/ SaveCache
    \/ \E event \in {"chunk", "raises", "ends"} : StreamNext(event)
    \/ StreamClose
    \/ SessionTick

SpecAsk == InitAsk /\ [][NextAsk]_vars

\* Two threads call the public methods of the cache, the session store and
\* the system in any order.
InitLocks ==
    /\ InitLockIdle
    /\ InitKeyIdle
    /\ InitCacheIdle
    /\ InitSessIdle
    /\ InitSearchIdle
    /\ InitDataIdle
    /\ InitAskIdle

NextLocks ==
    \/ \E t \in Threads, op \in DOMAIN Programs : Invoke(t, op)
    \/ \E t \in Threads : Acquire(t)
    \/ \E t \in Threads : Release(t)
    \/ \E t \in Threads : CallMethod(t)
    \/ \E t \in Threads : CallExternal(t)
    \/ \E t \in Threads : Return(t)
    \/ \E t \in Threads : ExternalReturn(t)

\* fair scheduling: a thread inside a method that can take its next step
\* again and again does take it; nothing is assumed of the callers, nor of
\* the external collaborators
SpecLocks == InitLocks /\ [][NextLocks]_vars /\ \A t \in Threads : SF_vars(Step(t))

\* The system of InitAsk with two threads asking in one session; the
\* requests are not streamed.
NextTurns ==
    \/ \E q \in AskQuestions : AskInThread(1, q)
    \/ ComposeQuery
    \/ \E llm \in {"ok", "raises"}, route \in Routes, filters \in ExtractedFilters :
          Retrieve(llm, route, filters)
    \/ \E raises \in BOOLEAN, answer \in GeneratedAnswers : Generate(raises, answer)
    \/ SaveUser
    \/ SaveAssistant
    \/ SaveCache
    \/ Switch
    \/ SessionTick

\* the knowledge base is built, every file was readable, both engines find
\* fragments
InitTurns ==
    /\ InitAsk
    /\ built
    /\ vector_answer = Returned(<<1, 3>>)
    /\ Len(documents) = Len(Library)

SpecTurns == InitTurns /\ [][NextTurns]_vars

\* the two spellings of one question
RepeatQuestions == {<<"a">>, <<" ", "A">>}

\* One caller asks one question again and again in one session, in either
\* spelling; the requests are not streamed.
NextRepeat ==
    \/ \E q \in RepeatQuestions : AskInThread(1, q)
    \/ ComposeQuery
    \/ \E llm \in {"ok", "raises"}, route \in Routes, filters \in ExtractedFilters :
          Retrieve(llm, route, filters)
    \/ \E raises \in BOOLEAN, answer \in GeneratedAnswers : Generate(raises, answer)
    \/ SaveUser
    \/ SaveAssistant
    \/ SaveCache
    \/ SessionTick

SpecRepeat == InitTurns /\ [][NextRepeat]_vars

\* Two threads create sessions and read the number of sessions of a store
\* that is empty at first.
NextCount ==
    \/ \E t \in Threads, u \in UserIds : CreateInsert(t, u)
    \/ CreateEvict
    \/ CreateReturn
    \/ \E t \in Threads : ActiveSessionCount(t)
    \/ SessionTick

SpecCount == InitSess /\ [][NextCount]_vars

(***************************************************************************)
(* Properties of the cache (SpecCache) and of its keys (SpecKey).          *)
(***************************************************************************)
\* the entries of table c other than the one filed under key, in order
Others(c, key) == SelectSeq(c, LAMBDA e : e.key # key)
\* the last call was op(session_id, query) with the arguments r
Called(l, op, r) == l.op = op /\ l.session_id = r[1] /\ l.query = r[2]
\* the sets of session r[1] for question r[2] (any spelling) that are not undone
Mine(r) == {w \in written : w.session_id = r[1] /\ w.question = normalize(r[2])}

\* C1: get(s, q) returns the answer of the set that s made for q, when that
\* set has not been overwritten, invalidated or evicted and its ttl has not
\* lapsed; otherwise it returns nothing - whatever another session has set
\* for the same question.
C1_SessionScopedKeys ==
    [][\A r \in Requests :
        Called(last', "get", r) =>
            LET live == {w \in Mine(r) : now - w.at <= ttl}
            IN  /\ live # {} => \E w \in live : last'.ret = w.answer
                /\ live = {} => last'.ret = None]_vars

\* a get missed in session s2 while session s1 holds an answer for the question
C1_Witness ==
    /\ last.op = "get"
    /\ last.ret = None
    /\ last.session_id = <<"s", "2">>
    /\ \E w \in written :
        /\ w.session_id = <<"s", "1">>
        /\ w.question = normalize(last.query)
        /\ w.key \in Keys(cache)
        /\ now - w.at <= ttl

\* C2: after every call the table holds at most max_size entries.
C2_SizeBound == Len(cache) <= max_size

\* a set filled the table beyond max_size and evicted down to it
C2_Witness ==
    /\ last.op = "set"
    /\ last.removed # <<>>
    /\ max_size >= 1
    /\ Len(cache) = max_size

\* C3: the entries a set evicts are, one after the other, the least recently
\* inserted or hit of the entries in the table (the new one included), and
\* the evictions counter grows by one for each.
C3_EvictsLeastRecentlyUsed ==
    [][(last'.op = "set" /\ last'.removed # <<>>) =>
        LET key   == last'.ret
            order == Touch(touched, key)
            n     == Len(last'.removed)
        IN  /\ n <= Len(order)
            /\ \A j \in 1..n : last'.removed[j] = order[j]
            /\ Keys(cache') = (Keys(cache) \cup {key}) \ {order[j] : j \in 1..n}
            /\ stats'.evictions = stats.evictions + n]_vars

\* a set evicted an entry while an entry that had been hit stayed as the oldest
C3_Witness ==
    /\ last.op = "set"
    /\ last.removed # <<>>
    /\ Len(cache) = 2
    /\ cache[1].hit_count >= 1
    /\ cache[1].key # last.ret

\* C4: a get on an entry whose ttl has lapsed returns nothing, removes that
\* entry and no other, and counts one miss and one eviction, wherever the
\* entry sits in the table.
C4_GetExpired ==
    [][\A r \in Requests :
        LET key == KeyOf[r[1], r[2]]
            i   == IndexOf(cache, key)
        IN  (Called(last', "get", r) /\ i # 0 /\ now - cache[i].created_at > ttl) =>
                /\ last'.ret = None
                /\ cache' = Others(cache, key)
                /\ stats' = [stats EXCEPT !.misses = @ + 1, !.evictions = @ + 1]]_vars

\* a get found the most recently used of several entries expired
C4_Witness ==
    /\ last.op = "get"
    /\ last.removed # <<>>
    /\ last.ret = None
    /\ Len(cache) >= 1
    /\ last.pos = Len(cache) + 1

C6_GetHit ==
    [][\A r \in Requests :
        LET key == KeyOf[r[1], r[2]]
            i   == IndexOf(cache, key)
        IN  (Called(last', "get", r) /\ i # 0 /\ now - cache[i].created_at <= ttl) =>
                /\ last'.ret = cache[i].answer
                /\ cache' = Append(Others(cache, key),
                                   [cache[i] EXCEPT !.hit_count = @ + 1])
                /\ stats' = [stats EXCEPT !.hits = @ + 1]
                /\ max_size' = max_size /\ ttl' = ttl]_vars

\* a get hit an entry that was not the most recently used
C6_Witness ==
    /\ last.op = "get"
    /\ last.ret \in Answers
    /\ last.pos # 0
    /\ last.pos < Len(cache)
    /\ cache[Len(cache)].hit_count >= 1

\* C7: a set on a key that has an entry leaves one entry for the key: the
\* new answer, created_at the current time, hit_count 0, most recently
\* used; the other entries stay and the table does not grow.
C7_SetOverwrites ==
    [][\A r \in Requests :
        LET key == KeyOf[r[1], r[2]]
            i   == IndexOf(cache, key)
        IN  (Called(last', "set", r) /\ i # 0) =>
                /\ Len(cache') = Len(cache)
                /\ cache' = Append(Others(cache, key), cache'[Len(cache')])
                /\ LET e == cache'[Len(cache')]
                   IN  /\ e.key = key
                       /\ e.query = r[2]
                       /\ e.answer = last'.answer
                       /\ e.created_at = now
                       /\ e.hit_count = 0]_vars

\* a set replaced an entry that was not the most recently used
C7_Witness ==
    /\ last.op = "set"
    /\ last.pos # 0
    /\ last.pos < Len(cache)
    /\ last.removed = <<>>

\* C8: cleanup_expired removes the entries whose ttl has lapsed, judged when
\* the sweep examines them: every entry whose ttl had lapsed when the call
\* began is removed and every entry whose ttl has not lapsed when it returns
\* is kept, wherever they sit; the survivors keep their content and order;
\* the result is the number of entries removed.
C8_CleanupExpired ==
    [][last'.op = "cleanup_expired" =>
        /\ cache' = SelectSeq(cache, LAMBDA e : e.key \in Keys(cache'))
        /\ \A i \in 1..Len(cache) :
            /\ now - cache[i].created_at > ttl => cache[i].key \notin Keys(cache')
            /\ now' - cache[i].created_at <= ttl => cache[i].key \in Keys(cache')
        /\ last'.ret = Len(cache) - Len(cache')]_vars

\* a sweep removed an entry that sat behind an unexpired one, which it kept
C8_Witness ==
    /\ last.op = "cleanup_expired"
    /\ last.ret >= 1
    /\ last.pos >= 2
    /\ cache # <<>>

(***************************************************************************)
(* Properties of the session store (SpecSess).                             *)
(***************************************************************************)
\* C9: after every call the store holds at most max_sessions sessions.
C9_SessionBound == Len(sessions) <= max_sessions

\* a create_session filled the store beyond max_sessions and evicted down to it
C9_Witness ==
    /\ slast.op = "create_session"
    /\ slast.removed # <<>>
    /\ max_sessions >= 1
    /\ Len(sessions) = max_sessions

\* C10: the sessions a create_session evicts are, one after the other, the
\* least recently used of the sessions in the store (the new one included),
\* where a session is used when it is created and whenever get_session finds
\* it live, called directly or by add_message, get_context, get_messages,
\* clear_session, get_session_info or get_or_create_session.
C10_EvictsLeastRecentlyTouched ==
    [][(slast'.op = "create_session" /\ slast'.removed # <<>>) =>
        LET id    == slast'.ret
            order == Touch(used, id)
            n     == Len(slast'.removed)
        IN  /\ n <= Len(order)
            /\ \A j \in 1..n : slast'.removed[j] = order[j]
            /\ Ids(sessions') = (Ids(sessions) \cup {id}) \ {order[j] : j \in 1..n}]_vars

\* a create_session evicted a session created after one that stayed: the
\* older one had been looked up since
C10_Witness ==
    /\ slast.op = "create_session"
    /\ slast.removed # <<>>
    /\ Len(sessions) = 2
    /\ sessions[1].session_id < slast.removed[1]

\* C11: get_session returns nothing and raises nothing for a session that is
\* not in the store and for one with now - updated_at > session_ttl; the
\* expired one leaves the store in that call, every other session staying as
\* it was, and an id that has left the store is in it at no later time.
C11_GetSessionAbsentOrExpired ==
    [][/\ slast'.op = "get_session" =>
            LET id == slast'.session_id
                i  == SessionIndex(sessions, id)
            IN  /\ slast'.raised = None
                /\ i = 0 => slast'.ret = <<>> /\ sessions' = sessions
                /\ (i # 0 /\ now - sessions[i].updated_at > session_ttl) =>
                        /\ slast'.ret = <<>>
                        /\ sessions' = SelectSeq(sessions, LAMBDA x : x.session_id # id)
       /\ \A id \in 1..issued : id \notin Ids(sessions) => id \notin Ids(sessions')]_vars

\* a get_session found its session expired, removed it and returned nothing
C11_Witness ==
    /\ slast.op = "get_session"
    /\ slast.ret = <<>>
    /\ slast.removed = <<slast.session_id>>
    /\ slast.session_id \notin Ids(sessions)
    /\ sessions # <<>>

\* the get_session of the step found its session live, at position i, and
\* returned it unchanged from the end of the table, the others keeping their order
ReadAndRefreshed(i) ==
    /\ slast'.ret = <<sessions[i]>>
    /\ sessions' = Append(SelectSeq(sessions, LAMBDA x : x # sessions[i]), sessions[i])
\* the sessions whose updated_at the step changed
Advanced ==
    {id \in Ids(sessions) \cap Ids(sessions') :
        sessions'[SessionIndex(sessions', id)].updated_at
            # sessions[SessionIndex(sessions, id)].updated_at}

\* C12 as stated: a get_session that finds its session live (now - updated_at
\* <= session_ttl) moves it to the most recent position and returns it with
\* updated_at unchanged, and only add_message changes the updated_at of a
\* session.
C12_OnlyAddMessageAdvances ==
    [][/\ slast'.op = "get_session" =>
            LET i == SessionIndex(sessions, slast'.session_id)
            IN  (i # 0 /\ now - sessions[i].updated_at <= session_ttl) => ReadAndRefreshed(i)
       /\ Advanced # {} => slast'.op = "add_message"]_vars

\* C12, amended: a get_session that finds its session live moves it to the
\* most recent position and returns it with updated_at unchanged; the only
\* calls that change the updated_at of a session are add_message and
\* clear_session, of that session, which set it to the current time.
C12_ReadsKeepUpdatedAt ==
    [][/\ slast'.op = "get_session" =>
            LET i == SessionIndex(sessions, slast'.session_id)
            IN  (i # 0 /\ now - sessions[i].updated_at <= session_ttl) => ReadAndRefreshed(i)
       /\ \A id \in Advanced :
            /\ slast'.op \in {"add_message", "clear_session"}
            /\ slast'.session_id = id
            /\ sessions'[SessionIndex(sessions', id)].updated_at = now]_vars

\* a get_session after the clock moved returned a session from the head of
\* the table, now at its end, with the updated_at it had
C12_Witness ==
    /\ slast.op = "get_session"
    /\ slast.pos = 1
    /\ Len(sessions) = 2
    /\ slast.ret = <<sessions[2]>>
    /\ sessions[2].updated_at < now

\* the session with this id in table ss
SessionOf(ss, id) == ss[SessionIndex(ss, id)]
\* the session is in the store and its ttl has not lapsed
Live(id) ==
    /\ id \in Ids(sessions)
    /\ now - SessionOf(sessions, id).updated_at <= session_ttl
\* sequence s is what is left of sequence t after dropping some of its head
IsSuffix(s, t) ==
    /\ Len(s) <= Len(t)
    /\ s = SubSeq(t, Len(t) - Len(s) + 1, Len(t))

\* C13: add_message on a session that is absent or expired returns False and
\* leaves the messages of every session in the store as they were; on a live
\* session it returns True, the message (role, content, written at the
\* current time) is the last of the session's messages, which are otherwise
\* the earlier messages in their order, updated_at is the current time, and
\* the other sessions are as they were.
C13_AddMessage ==
    [][slast'.op = "add_message" =>
        LET id == slast'.session_id
        IN  /\ slast'.raised = None
            /\ ~Live(id) =>
                    /\ slast'.ret = FALSE
                    /\ sessions' = SelectSeq(sessions, LAMBDA x : x.session_id # id)
            /\ Live(id) =>
                    LET old == SessionOf(sessions, id)
                        new == SessionOf(sessions', id)
                        message == Message(slast'.arg[1], slast'.arg[2], now)
                    IN  /\ slast'.ret = TRUE
                        /\ id \in Ids(sessions')
                        /\ new.messages # <<>>
                        /\ new.messages[Len(new.messages)] = message
                        /\ IsSuffix(new.messages, Append(old.messages, message))
                        /\ new.updated_at = now
                        /\ SelectSeq(sessions', LAMBDA x : x.session_id # id)
                             = SelectSeq(sessions, LAMBDA x : x.session_id # id)]_vars

\* an add_message put an assistant message behind an earlier user message,
\* after the clock had moved, in a store that holds another session too
C13_Witness ==
    /\ slast.op = "add_message"
    /\ slast.ret = TRUE
    /\ slast.arg[1] = "assistant"
    /\ Len(sessions) = 2
    /\ Len(sessions[2].messages) = 2
    /\ sessions[2].messages[1].role = "user"
    /\ sessions[2].updated_at > sessions[2].created_at

\* an add_message on an expired session returned False
C13_WitnessExpired ==
    /\ slast.op = "add_message"
    /\ slast.ret = FALSE
    /\ slast.removed # <<>>
    /\ sessions # <<>>

\* the messages are a user message, an assistant message, a user message, ...
Alternating(messages) ==
    \A j \in 1..Len(messages) :
        messages[j].role = (IF j % 2 = 1 THEN "user" ELSE "assistant")

\* C14: no session in the store holds more than 2 x max_history messages;
\* an add_message on a live session leaves the history with the new message
\* appended less an even number of its oldest messages, as few pairs as bring
\* it within 2 x max_history; so if the history with the new message appended
\* alternates user, assistant, user, ... so does what is kept.
C14_PairTrimming ==
    [][/\ \A j \in 1..Len(sessions') : Len(sessions'[j].messages) <= 2 * max_history
       /\ (slast'.op = "add_message" /\ Live(slast'.session_id)) =>
            LET old == SessionOf(sessions, slast'.session_id).messages
                new == SessionOf(sessions', slast'.session_id).messages
                all == Append(old, Message(slast'.arg[1], slast'.arg[2], now))
                n   == Len(all) - Len(new)
            IN  /\ IsSuffix(new, all)
                /\ n % 2 = 0
                /\ n > 0 => Len(new) + 2 > 2 * max_history
                /\ slast'.removed = SubSeq(all, 1, n)
                /\ Alternating(all) => Alternating(new)]_vars

\* an add_message appended a third message to an alternating history held to
\* two messages, and the two oldest were dropped
C14_Witness ==
    /\ slast.op = "add_message"
    /\ slast.ret = TRUE
    /\ Len(slast.removed) = 2
    /\ slast.removed[1].role = "user"
    /\ slast.removed[2].role = "assistant"
    /\ \E j \in 1..Len(sessions) :
        /\ sessions[j].session_id = slast.session_id
        /\ Len(sessions[j].messages) = 1
        /\ sessions[j].messages[1].role = "user"

(***************************************************************************)
(* Properties of get_context (SpecContext).                                *)
(***************************************************************************)
\* the roles and contents of the messages
Turns(messages) ==
    [j \in 1..Len(messages) |-> <<messages[j].role, messages[j].content>>]

\* C15: with context_window = 1, get_context(id, include_current = False) on
\* a live session whose messages are user A, assistant B, user C returns the
\* line for user A, a newline and the line for assistant B.
C15_ContextExample ==
    [][(/\ slast'.op = "get_context"
        /\ slast'.arg = FALSE
        /\ context_window = 1
        /\ Live(slast'.session_id)
        /\ Turns(SessionOf(sessions, slast'.session_id).messages)
             = << <<"user", <<"A">> >>, <<"assistant", <<"B">> >>, <<"user", <<"C">> >> >>)
       => slast'.ret = <<"U+7528", "U+6237", ":", " ", "A", "\n",
                         "U+52A9", "U+624B", ":", " ", "B">>]_vars

\* that call was made: the session holds user A, assistant B, user C and the
\* context returned ends with the content of the assistant message
C15_Witness ==
    /\ slast.op = "get_context"
    /\ slast.arg = FALSE
    /\ context_window = 1
    /\ slast.session_id \in Ids(sessions)
    /\ Turns(SessionOf(sessions, slast.session_id).messages)
         = << <<"user", <<"A">> >>, <<"assistant", <<"B">> >>, <<"user", <<"C">> >> >>
    /\ slast.ret # <<>>
    /\ slast.ret[Len(slast.ret)] = "B"

\* the n most recent of the messages
MostRecent(messages, n) ==
    SubSeq(messages, IF Len(messages) > n THEN Len(messages) - n + 1 ELSE 1, Len(messages))
\* the messages without the latest one when that is skipped as the question
\* in flight
WithoutCurrent(messages, include_current) ==
    IF ~include_current /\ messages # <<>> /\ messages[Len(messages)].role = "user"
    THEN SubSeq(messages, 1, Len(messages) - 1)
    ELSE messages
\* one line per message, oldest first: label, colon, space, content
Line(message) ==
    (IF message.role = "user" THEN <<"U+7528", "U+6237">> ELSE <<"U+52A9", "U+624B">>)
        \o <<":", " ">> \o message.content
RECURSIVE Lines(_)
Lines(messages) ==
    IF messages = <<>> THEN <<>>
    ELSE IF Len(messages) = 1 THEN Line(messages[1])
    ELSE Line(messages[1]) \o <<"\n">> \o Lines(Tail(messages))

\* C16 as stated: get_context on a live session takes the most recent
\* 2 x context_window messages and then, if include_current is false and the
\* latest message is a user message, leaves that one out; it returns the
\* lines of the rest, oldest first.
C16_WindowThenExclude ==
    [][(slast'.op = "get_context" /\ Live(slast'.session_id)) =>
        LET all == SessionOf(sessions, slast'.session_id).messages
        IN  slast'.ret =
                Lines(WithoutCurrent(MostRecent(all, 2 * context_window), slast'.arg))]_vars

\* C16, amended: get_context on a live session first leaves out the latest
\* message, if include_current is false and it is a user message, and then
\* takes the most recent 2 x context_window of the remaining messages
\* (context_window >= 1); it returns their lines, oldest first.
C16_ExcludeThenWindow ==
    [][(slast'.op = "get_context" /\ Live(slast'.session_id) /\ context_window >= 1) =>
        LET all == SessionOf(sessions, slast'.session_id).messages
        IN  slast'.ret =
                Lines(MostRecent(WithoutCurrent(all, slast'.arg), 2 * context_window))]_vars

\* a get_context rendered the two messages before a trailing user message:
\* more than the window taken first would have left
C16_Witness ==
    /\ slast.op = "get_context"
    /\ slast.arg = FALSE
    /\ context_window = 1
    /\ slast.session_id \in Ids(sessions)
    /\ LET all == SessionOf(sessions, slast.session_id).messages
       IN  /\ Len(all) = 3
           /\ all[3].role = "user"
           /\ slast.ret = Lines(SubSeq(all, 1, 2))

\* C17: get_context raises nothing, and returns the empty text when the
\* session is not in the store, when its ttl has lapsed, when it has no
\* message, and when include_current is false and its only message is a user
\* message.
C17_EmptyContext ==
    [][slast'.op = "get_context" =>
        LET id == slast'.session_id
        IN  /\ slast'.raised = None
            /\ ~Live(id) => slast'.ret = <<>>
            /\ Live(id) =>
                LET all == SessionOf(sessions, id).messages
                IN  /\ all = <<>> => slast'.ret = <<>>
                    /\ (~slast'.arg /\ Len(all) = 1 /\ all[1].role = "user")
                           => slast'.ret = <<>>]_vars

\* a get_context without the current message returned the empty text for a
\* live session whose only message is a user message
C17_Witness ==
    /\ slast.op = "get_context"
    /\ slast.arg = FALSE
    /\ slast.ret = <<>>
    /\ slast.session_id \in Ids(sessions)
    /\ Turns(SessionOf(sessions, slast.session_id).messages) = << <<"user", <<"A">> >> >>

\* a get_context returned the empty text for a session it found expired, one
\* that held messages
C17_WitnessExpired ==
    /\ slast.op = "get_context"
    /\ slast.ret = <<>>
    /\ slast.removed = <<slast.session_id>>
    /\ scalls >= 2

(***************************************************************************)
(* Properties of the rank fusion (SpecSearch).                             *)
(***************************************************************************)
\* the two lists a search fuses: what the vector engine returned and what
\* the lexical engine returned, by its public method or else its private one
VectorList  == vector_answer.docs
LexicalList ==
    IF bm25_answer.public.raised = None THEN bm25_answer.public.docs
    ELSE bm25_answer.private.docs
\* 1 / n, in units of 1 / RrfScale
Fraction(n) == RrfScale \div n
\* the 1-based ranks at which the list holds the document / a document of the text
RanksOfDoc(list, doc)   == {r \in 1..Len(list) : list[r] = doc}
RanksOfText(list, text) == {r \in 1..Len(list) : Corpus[list[r]] = text}
\* the sum of 1 / (k + r) over the ranks r
RECURSIVE Terms(_)
Terms(ranks) ==
    IF ranks = {} THEN 0
    ELSE LET r == CHOOSE x \in ranks : TRUE
         IN  Fraction(RrfK + r) + Terms(ranks \ {r})
\* the last step was a search that fused the two lists
Searched == rlast'.op = "hybrid_search" /\ rlast'.raised = None

\* C18 as stated: every fragment a search returns carries the score
\* 1/(60 + r1) + 1/(60 + r2) when it is at rank r1 of the vector list and at
\* rank r2 of the lexical list, and 1/(60 + r) when it is in one list only,
\* at rank r.
C18_ScoreOfFragment ==
    [][Searched =>
        \A i \in 1..Len(rlast'.ret) :
            rlast'.ret[i].rrf_score
                = Terms(RanksOfDoc(VectorList, rlast'.ret[i].doc))
                  + Terms(RanksOfDoc(LexicalList, rlast'.ret[i].doc))]_vars

\* C18, amended: fragments with the same text are one ranking unit; every
\* fragment a search returns carries the sum of 1/(60 + r) over the ranks r
\* at which its text occurs in the vector list and in the lexical list, so
\* 1/(60 + r1) + 1/(60 + r2) when the text occurs once in each, and
\* 1/(60 + r) when it occurs once in all.
C18_ScoreOfText ==
    [][Searched =>
        \A i \in 1..Len(rlast'.ret) :
            LET text == Corpus[rlast'.ret[i].doc]
            IN  rlast'.ret[i].rrf_score
                    = Terms(RanksOfText(VectorList, text))
                      + Terms(RanksOfText(LexicalList, text))]_vars

\* a search returned a fragment that is second in the vector list and first
\* in the lexical list, with 1/62 + 1/61, behind no other, and a fragment
\* that is in the vector list only, first, with 1/61
C18_Witness ==
    /\ rlast.op = "hybrid_search"
    /\ Len(rlast.ret) >= 2
    /\ RanksOfText(VectorList, Corpus[rlast.ret[1].doc]) = {2}
    /\ RanksOfText(LexicalList, Corpus[rlast.ret[1].doc]) = {1}
    /\ rlast.ret[1].rrf_score = Fraction(62) + Fraction(61)
    /\ RanksOfText(VectorList, Corpus[rlast.ret[2].doc]) = {1}
    /\ RanksOfText(LexicalList, Corpus[rlast.ret[2].doc]) = {}
    /\ rlast.ret[2].rrf_score = Fraction(61)

\* both engines returned a list and the last step was a search
Fused ==
    /\ Searched
    /\ vector_answer.raised = None
    /\ bm25_answer.public.raised = None \/ bm25_answer.private.raised = None
\* the texts of the two lists, and where a text is first seen when the vector
\* list is read before the lexical list
BothLists == VectorList \o LexicalList
TextsSeen == {Corpus[BothLists[i]] : i \in 1..Len(BothLists)}
FirstSeen(text) ==
    CHOOSE i \in 1..Len(BothLists) :
        /\ Corpus[BothLists[i]] = text
        /\ \A j \in 1..(i - 1) : Corpus[BothLists[j]] # text
\* the fused score of a text (C18)
ScoreOfText(text) == Terms(RanksOfText(VectorList, text)) + Terms(RanksOfText(LexicalList, text))
\* text t ranks before text u
Before(t, u) ==
    \/ ScoreOfText(t) > ScoreOfText(u)
    \/ ScoreOfText(t) = ScoreOfText(u) /\ FirstSeen(t) < FirstSeen(u)
\* sequence s begins sequence t
IsPrefix(s, t) == Len(s) <= Len(t) /\ s = SubSeq(t, 1, Len(s))

\* C19: when both engines return a list, hybrid_search returns fragments in
\* order of fused score, highest first, those of equal score in the order in
\* which their texts are first seen reading the vector list and then the
\* lexical list; it returns top_k of them, or all if there are fewer, and
\* none that ranks behind one it leaves out; a search repeated with the same
\* lists returns the same fragments in the same order (with another top_k,
\* more or fewer of the same order).
C19_SortedStableTruncated ==
    [][Fused =>
        LET ret  == rlast'.ret
            text == [i \in 1..Len(ret) |-> Corpus[ret[i].doc]]
        IN  /\ \A i, j \in 1..Len(ret) : i < j =>
                    /\ ret[i].rrf_score >= ret[j].rrf_score
                    /\ Before(text[i], text[j])
            /\ Len(ret) <= rlast'.top_k
            /\ Len(ret) < rlast'.top_k => Len(ret) = Cardinality(TextsSeen)
            /\ \A i \in 1..Len(ret) :
                    \A u \in TextsSeen \ {text[j] : j \in 1..Len(ret)} : Before(text[i], u)
            /\ rlast.op = "hybrid_search" =>
                    IsPrefix(rlast.ret, ret) \/ IsPrefix(ret, rlast.ret)
            /\ (rlast.op = "hybrid_search" /\ rlast.top_k = rlast'.top_k) => ret = rlast.ret]_vars

\* a repeated search with top_k = 2 over three texts returned two fragments
\* of equal score, the one from the vector list before the one that is in
\* the lexical list only
C19_Witness ==
    /\ rlast.op = "hybrid_search"
    /\ rcalls >= 2
    /\ rlast.top_k = 2
    /\ Cardinality(TextsSeen) = 3
    /\ Len(rlast.ret) = 2
    /\ rlast.ret[1].rrf_score = rlast.ret[2].rrf_score
    /\ RanksOfText(VectorList, Corpus[rlast.ret[1].doc]) # {}
    /\ RanksOfText(VectorList, Corpus[rlast.ret[2].doc]) = {}

\* an engine failed: the vector search raised; the lexical search raised and
\* no list came from its private method either
VectorFailed  == vector_answer.raised # None
LexicalFailed == bm25_answer.public.raised # None /\ bm25_answer.private.raised # None

\* C20: when exactly one of the two engines fails, hybrid_search raises
\* nothing and returns the fused ranking of the list of the other engine:
\* its top_k best texts (all if there are fewer), best first, with their
\* scores.
C20_OneEngineFails ==
    [][(rlast'.op = "hybrid_search" /\ VectorFailed # LexicalFailed) =>
        LET ret == rlast'.ret
        IN  /\ rlast'.raised = None
            /\ Len(ret) = (IF rlast'.top_k < Cardinality(TextsSeen)
                           THEN rlast'.top_k ELSE Cardinality(TextsSeen))
            /\ \A i \in 1..Len(ret) :
                    /\ ret[i].rrf_score = ScoreOfText(Corpus[ret[i].doc])
                    /\ \A j \in 1..Len(ret) : i < j =>
                            Before(Corpus[ret[i].doc], Corpus[ret[j].doc])]_vars

\* C21: when both engines fail, hybrid_search raises RetrievalError.
C21_BothEnginesFail ==
    [][(rlast'.op = "hybrid_search" /\ VectorFailed /\ LexicalFailed) =>
        rlast'.raised = "RetrievalError"]_vars

(***************************************************************************)
(* Properties of the filtered search (SpecFilter).                         *)
(***************************************************************************)
\* both engines returned the empty list
BothEmpty ==
    /\ vector_answer = Returned(<<>>)
    /\ \/ bm25_answer.public = Returned(<<>>)
       \/ bm25_answer.public.raised = "AttributeError" /\ bm25_answer.private = Returned(<<>>)

\* C22: when both engines return the empty list, hybrid_search returns the
\* empty list and raises nothing, and so does metadata_filter, whatever the
\* filters and top_k.
C22_EmptyResults ==
    [][(BothEmpty /\ rlast'.op \in {"hybrid_search", "metadata_filter"}) =>
        /\ rlast'.ret = <<>>
        /\ rlast'.raised = None]_vars

\* a metadata_filter for category soup returned the empty list when both
\* engines had returned nothing
C22_Witness ==
    /\ BothEmpty
    /\ rlast.op = "metadata_filter"
    /\ rlast.filters = << <<"category", Single("soup")>> >>
    /\ rlast.top_k = MaxTopK
    /\ rlast.ret = <<>>
    /\ rlast.raised = None

\* the document satisfies every filter: it has the key, with the value of the
\* filter or one of its values
Satisfies(doc, filters) ==
    \A n \in 1..Len(filters) :
        /\ filters[n][1] \in DOMAIN Metadata[doc]
        /\ IF filters[n][2].list
           THEN Metadata[doc][filters[n][1]] \in filters[n][2].value
           ELSE Metadata[doc][filters[n][1]] = filters[n][2].value
\* the first n of a sequence
FirstN(seq, n) == SubSeq(seq, 1, IF Len(seq) < n THEN Len(seq) ELSE n)

\* C23: metadata_filter(query, filters, top_k) returns the first top_k of
\* the fragments of hybrid_search(query, 3 x top_k) that satisfy every
\* filter, in the order hybrid_search gives them, or all of them if fewer
\* satisfy the filters.
C23_FilteredSearch ==
    [][(rlast'.op = "metadata_filter" /\ rlast'.raised = None) =>
        LET found == hybrid_search(vector_answer, bm25_answer, 3 * rlast'.top_k).ret
        IN  rlast'.ret =
                FirstN(SelectSeq(found, LAMBDA x : Satisfies(x.doc, rlast'.filters)),
                       rlast'.top_k)]_vars

\* a metadata_filter with top_k = 1 over four texts returned nothing: none of
\* the three fragments fetched satisfies the filter, the fourth text would
C23_Witness ==
    /\ rlast.op = "metadata_filter"
    /\ rlast.raised = None
    /\ rlast.top_k = 1
    /\ rlast.ret = <<>>
    /\ Cardinality(TextsSeen) = 4
    /\ \E i \in 1..Len(BothLists) : Satisfies(BothLists[i], rlast.filters)

\* a metadata_filter returned two fragments and passed over one, ranked
\* before them, that lacks a filtered key
C23_WitnessMissingKey ==
    /\ rlast.op = "metadata_filter"
    /\ Len(rlast.ret) = 2
    /\ rlast.filters = << <<"category", Single("soup")>>,
                          <<"difficulty", AnyOf({"easy", "hard"})>> >>
    /\ BothLists # <<>>
    /\ BothLists[1] = 2


(***************************************************************************)
(* Parents of fragments (C24..C26)                                         *)
(***************************************************************************)

ParentCalled(call) == call.op = "get_parent_documents"

\* the parent ids of a list of documents
IdsOf(docs) == [k \in 1..Len(docs) |-> docs[k].parent_id]

Stored(docs, parent_id) == \E k \in 1..Len(docs) : docs[k].parent_id = parent_id

\* number of fragments of the list that name the parent
Relevance(child_chunks, parent_id) ==
    Cardinality({i \in 1..Len(child_chunks) : child_chunks[i] = parent_id})

\* where the parent is first named in the list
FirstNamed(child_chunks, parent_id) ==
    CHOOSE i \in 1..Len(child_chunks) :
        /\ child_chunks[i] = parent_id
        /\ \A j \in 1..(i - 1) : child_chunks[j] # parent_id

\* the parent ids are ranked by the fragments of the list: more fragments
\* first, and among equals the one named first
Ranked(ids, child_chunks) ==
    \A j, k \in 1..Len(ids) :
        j < k =>
            \/ Relevance(child_chunks, ids[j]) > Relevance(child_chunks, ids[k])
            \/ /\ Relevance(child_chunks, ids[j]) = Relevance(child_chunks, ids[k])
               /\ FirstNamed(child_chunks, ids[j]) < FirstNamed(child_chunks, ids[k])

P1 == parent_id_of(Library[1].path)

P2 == parent_id_of(Library[2].path)

\* C24: get_parent_documents returns every stored document that some
\* fragment names, each exactly once and nothing else, ordered by the
\* number of fragments naming it, descending, ties in the order in which
\* the parents first appear among the fragments; [f1(P1), f2(P2), f3(P1)]
\* yields [P1, P2].
C24_ParentRanking ==
    ParentCalled(plast) =>
        /\ \A k \in 1..Len(plast.ret) :
              /\ \E m \in 1..Len(documents) : plast.ret[k] = documents[m]
              /\ Relevance(plast.arg, plast.ret[k].parent_id) > 0
        /\ \A m \in 1..Len(documents) :
              Relevance(plast.arg, documents[m].parent_id) > 0 =>
                  Cardinality({k \in 1..Len(plast.ret) :
                                   plast.ret[k] = documents[m]}) = 1
        /\ Ranked(IdsOf(plast.ret), plast.arg)
        /\ (plast.arg = <<P1, P2, P1>> /\ Stored(documents, P1) /\ Stored(documents, P2))
               => IdsOf(plast.ret) = <<P1, P2>>

\* the example of C24, and a list the sort has to reorder
C24_Witness ==
    /\ ParentCalled(plast)
    /\ plast.arg = <<P1, P2, P1>>
    /\ IdsOf(plast.ret) = <<P1, P2>>

C24_WitnessReordered ==
    /\ ParentCalled(plast)
    /\ plast.arg = <<P2, P1, P1>>
    /\ IdsOf(plast.ret) = <<P1, P2>>

\* a fragment that names no parent or a parent that is not stored
Skipped(docs, parent_id) == parent_id = NoParent \/ ~Stored(docs, parent_id)

\* C25: get_parent_documents never fails on fragments whose parent_id is
\* unknown or missing: it raises nothing, such fragments bring no document
\* into the result, the known parents come in the order the other
\* fragments alone give them, and the stored documents are not modified.
C25_OrphansSkipped ==
    [][ParentCalled(plast') =>
          LET known == SelectSeq(plast'.arg, LAMBDA id : ~Skipped(documents, id))
          IN  /\ plast'.raised = None
              /\ \A k \in 1..Len(plast'.ret) :
                     ~Skipped(documents, plast'.ret[k].parent_id)
              /\ \A i \in 1..Len(known) :
                     \E k \in 1..Len(plast'.ret) : plast'.ret[k].parent_id = known[i]
              /\ Ranked(IdsOf(plast'.ret), known)
              /\ documents' = documents]_vars

\* an orphan and a fragment without parent among fragments of stored parents
C25_Witness ==
    /\ ParentCalled(plast)
    /\ \E i \in 1..Len(plast.arg) : plast.arg[i] = NoParent
    /\ \E i \in 1..Len(plast.arg) :
          plast.arg[i] # NoParent /\ ~Stored(documents, plast.arg[i])
    /\ plast.ret # <<>>
    /\ plast.raised = None

\* the source of a load is unreachable, or holds no file
Unreachable(source) == ~source.reachable

Empty(source) == source.reachable /\ \A i \in FileIds : source.status[i] = "absent"

\* C26: load_documents on an unreachable or empty source fails with an
\* ingestion error and leaves the previously loaded documents unchanged.
C26_AllOrNothingLoad ==
    [][(plast'.op = "load_documents"
            /\ (Unreachable(plast'.arg) \/ Empty(plast'.arg))) =>
          /\ plast'.raised = "IngestionError"
          /\ documents' = documents]_vars

(***************************************************************************)
(* Requests (C27, C28)                                                     *)
(***************************************************************************)

\* the request was handed a generator: it is suspended in it, or ended in it
Streamed(r) ==
    /\ r.stream
    /\ \/ Suspended(r)
       \/ r.result = "closed"
       \/ r.kind \in {"streamed", "generation_failed"}

\* the step is a call of cache.set, of add_message
SetCalled == ncalls' # ncalls /\ last'.op = "set"

MessageAdded == scalls' # scalls /\ slast'.op = "add_message"

\* C27: in streaming mode the cache and the session are written only after
\* the generator of the answer has ended: a request whose consumer
\* abandoned the stream, or whose generation failed, has written no message
\* and no cache entry; a request that drained the stream has made a single
\* set call, with exactly the concatenation of the chunks it yielded.
C27_StreamWritesAfterDrain ==
    [][Streamed(ask') =>
          /\ (SetCalled \/ MessageAdded) => ask.kind = "streamed"
          /\ SetCalled =>
                /\ last'.answer = join_chunks(ask'.yielded)
                /\ last'.session_id = cache_session(ask'.session_id)
                /\ last'.query = ask'.question
                /\ ask.sets = <<>>
          /\ (ask'.result = "closed" \/ ask'.kind = "generation_failed") =>
                ask'.msgs = <<>> /\ ask'.sets = <<>>
          /\ (ask'.result = "exhausted" /\ ask'.kind = "streamed") =>
                ask'.sets = <<join_chunks(ask'.yielded)>>]_vars

\* a stream of two chunks drained: the answer is in the cache
C27_Witness ==
    /\ ask.stream
    /\ ask.result = "exhausted"
    /\ ask.kind = "streamed"
    /\ ask.yielded = <<chunk_at(1), chunk_at(2)>>
    /\ ask.sets = << <<"x", "y">> >>
    /\ \E i \in 1..Len(cache) :
          cache[i].answer = <<"x", "y">> /\ cache[i].query = ask.question

\* a stream abandoned after its first chunk, and one that failed after it
C27_WitnessAbandoned ==
    /\ ask.result = "closed"
    /\ ask.yielded = <<chunk_at(1)>>
    /\ cache = <<>>

C27_WitnessFailed ==
    /\ ask.stream
    /\ ask.kind = "generation_failed"
    /\ ask.result = "exhausted"
    /\ ask.yielded = <<chunk_at(1), StreamFailedMessage>>
    /\ cache = <<>>

\* C28: a cache entry is created only by a request that missed the cache
\* and produced a successful answer: no set call is made by a request that
\* hit the cache, nor by one that ends with a generation failure, a
\* parent-resolution failure or a no-results fallback message.
C28_CachedOnlyOnSuccess ==
    [][SetCalled => (~ask.hit /\ ask.kind \in {"answer", "streamed"})]_vars

(***************************************************************************)
(* Locks (C29, C30)                                                        *)
(***************************************************************************)

Holds(t, lock) == holder[lock].owner = t

\* C29: no operation holds a component lock while invoking another
\* component or an external collaborator: a thread whose innermost call is
\* a retrieval engine, the generation model or a method of another
\* component holds neither the cache lock nor the session-store lock (a
\* lock is only held inside methods of its own component).
C29_NoLockAcrossComponents ==
    \A t \in Threads, lock \in Locks :
        (stack[t] # <<>> /\ Holds(t, lock)) => component_of(Top(t).op) = lock

\* a thread waits for the model inside compose_query inside ask_question
\* while the other is inside get_session inside add_message, the session
\* lock taken twice
C29_Witness ==
    \E t, u \in Threads :
        /\ Len(stack[t]) = 3
        /\ Top(t).op = "llm"
        /\ stack[t][1].op = "system.ask_question"
        /\ \A lock \in Locks : ~Holds(t, lock)
        /\ Len(stack[u]) = 2
        /\ stack[u][1].op = "session.add_message"
        /\ holder["session"] = [owner |-> u, count |-> 2]

\* the thread is inside a method of the cache or of the session store
InOperation(t) ==
    \E k \in 1..Len(stack[t]) : component_of(stack[t][k].op) \in Locks

C31_FragmentsByValue ==
    [][chunks' = chunks]_vars

\* the step is a call of the cache method
CacheCalled(op) == ncalls' # ncalls /\ last'.op = op

\* how much the step adds to a counter of the statistics
Added(counter) == stats'[counter] - stats[counter]

\* every get adds one to exactly one of hits and misses, every set adds one
\* to sets, and nothing else touches these counters: they count the calls
CountersCountCalls ==
    /\ CacheCalled("get") =>
          /\ {Added("hits"), Added("misses")} = {0, 1}
          /\ (Added("hits") = 1) <=> (last'.ret # None)
          /\ Added("sets") = 0
    /\ CacheCalled("set") =>
          Added("sets") = 1 /\ Added("hits") = 0 /\ Added("misses") = 0
    /\ ~(CacheCalled("get") \/ CacheCalled("set")) =>
          Added("sets") = 0 /\ Added("hits") = 0 /\ Added("misses") = 0

\* C32 as stated: the hit rate reported is exactly hits / (hits + misses)
C32_ExactHitRate ==
    [][/\ CountersCountCalls
       /\ last'.op = "get_stats" =>
             IF stats.hits + stats.misses = 0 THEN last'.ret.hit_rate = 0
             ELSE last'.ret.hit_rate * (stats.hits + stats.misses)
                      = stats.hits * RateScale]_vars

\* C32: get_stats reports the hit rate hits / (hits + misses) rounded to
\* four decimal places, 0 when no get has occurred; every get has added one
\* to exactly one of hits and misses and every set one to sets, so that
\* hits + misses is the number of get calls and sets the number of set calls.
C32_RoundedHitRate ==
    [][/\ CountersCountCalls
       /\ last'.op = "get_stats" =>
             LET total == stats.hits + stats.misses
                 err   == last'.ret.hit_rate * total - stats.hits * RateScale
             IN  /\ last'.ret.hits = stats.hits
                 /\ last'.ret.misses = stats.misses
                 /\ last'.ret.sets = stats.sets
                 /\ last'.ret.total_requests = total
                 /\ IF total = 0 THEN last'.ret.hit_rate = 0
                    ELSE 2 * err <= total /\ -2 * err <= total]_vars

\* one hit in three gets is reported as 0.3333
C32_Witness ==
    /\ last.op = "get_stats"
    /\ stats.hits = 1
    /\ stats.misses = 2
    /\ last.ret.hit_rate = 3333

\* no get yet: the rate is 0
C32_WitnessNoGet ==
    /\ last.op = "get_stats"
    /\ stats.hits + stats.misses = 0
    /\ stats.sets > 0
    /\ last.ret.hit_rate = 0

\* C33: two questions in the same session that differ only in trailing
\* punctuation have the same cache key (so that a get for one hits the
\* entry a set for the other stored).
C33_TrailingPunctuation ==
    (kout.raw # <<>> /\ kout.punctuated # <<>>) => kout.raw = kout.punctuated

\* C34: a search returns at most one fragment of each text, and a text that
\* the vector engine returned in one fragment, at rank rv, and the lexical
\* engine in another fragment, at rank rl, is one item of the result whose
\* score is 1/(60 + rv) + 1/(60 + rl).
C34_FusionByText ==
    [][Fused =>
        LET ret == rlast'.ret
        IN  /\ \A i, j \in 1..Len(ret) :
                    i # j => Corpus[ret[i].doc] # Corpus[ret[j].doc]
            /\ \A i \in 1..Len(ret) : \A rv \in 1..Len(VectorList), rl \in 1..Len(LexicalList) :
                    (/\ RanksOfText(VectorList, Corpus[ret[i].doc]) = {rv}
                     /\ RanksOfText(LexicalList, Corpus[ret[i].doc]) = {rl})
                        => ret[i].rrf_score = Fraction(RrfK + rv) + Fraction(RrfK + rl)
            /\ Len(ret) < rlast'.top_k => Len(ret) = Cardinality(TextsSeen)]_vars

\* a search fused two fragments of one text, one from each engine, into the
\* first item of its result, ahead of a fragment of another text
C34_Witness ==
    /\ rlast.op = "hybrid_search"
    /\ rlast.raised = None
    /\ Len(rlast.ret) = 2
    /\ rlast.top_k = 3
    /\ VectorList = <<2, 1>>
    /\ LexicalList = <<4>>
    /\ Corpus[rlast.ret[1].doc] = Corpus[1]
    /\ rlast.ret[1].rrf_score = Fraction(62) + Fraction(61)

\* C35: hits do not extend the lifetime of an entry.  Every entry of the
\* table was created when the latest set for its key was made, whatever
\* hits it has had since; and a get that returns an answer returns the
\* answer of a set made for the key no more than ttl ago.
C35_HitsKeepLifetime ==
    [][/\ \A i \in 1..Len(cache') :
            \E w \in written' : w.key = cache'[i].key /\ w.at = cache'[i].created_at
       /\ \A r \in Requests :
            (Called(last', "get", r) /\ ncalls' # ncalls /\ last'.ret # None) =>
                \E w \in Mine(r) : /\ w.answer = last'.ret
                                   /\ now - w.at <= ttl
                                   /\ \A v \in Mine(r) : v.at <= w.at]_vars

\* a get hit an entry for the second time, exactly ttl after its set
C35_Witness ==
    /\ last.op = "get"
    /\ last.ret \in Answers
    /\ cache[Len(cache)].hit_count >= 2
    /\ now - cache[Len(cache)].created_at = ttl
    /\ ttl > 0

\* an entry that had been hit was found expired by a later get
C35_WitnessExpired ==
    /\ last.op = "get"
    /\ last.ret = None
    /\ last.removed # <<>>
    /\ stats.sets = 1
    /\ stats.hits >= 1

(***************************************************************************)
(* Properties of the session store under every configuration              *)
(* (SpecConfigured).                                                       *)
(***************************************************************************)
\* the number of messages a context text renders: one line each
Rendered(text) ==
    IF text = <<>> THEN 0
    ELSE 1 + Cardinality({j \in 1..Len(text) : text[j] = "\n"})

\* C36: get_context renders at most 2 x context_window messages, whatever
\* context_window >= 0 is configured and whatever the history; with
\* context_window = 0 it renders none.
C36_ContextWithinWindow ==
    [][slast'.op = "get_context" => Rendered(slast'.ret) <= 2 * context_window]_vars

\* C37: add_message on a live session raises nothing and stores the
\* message, whatever max_history >= 0 is configured: it returns True, and
\* the history it leaves is within 2 x max_history messages.
C37_AddMessageNeverRaises ==
    [][(slast'.op = "add_message" /\ Live(slast'.session_id)) =>
        /\ slast'.raised = None
        /\ slast'.ret = TRUE
        /\ Len(SessionOf(sessions', slast'.session_id).messages) <= 2 * max_history]_vars

(***************************************************************************)
(* Properties of concurrent requests (SpecTurns) and of the session count  *)
(* (SpecCount).                                                            *)
(***************************************************************************)
\* C38: when two requests of one session run at the same time, the user
\* message and the assistant message of each are stored next to each other:
\* once both requests are over, the history of the session is a user
\* message, an assistant message, a user message, ...
C38_TurnsStayAdjacent ==
    (Finished(ask) /\ Finished(waiting)) =>
        \A j \in 1..Len(sessions) : Alternating(sessions[j].messages)

\* C39: active_session_count never returns more than max_sessions, also
\* when it is read while a create_session is under way.
C39_CountWithinBound ==
    slast.op = "active_session_count" => slast.ret <= max_sessions

\* both requests are over and the session holds the two user messages ahead
\* of the two assistant messages
C38_Interleaved ==
    /\ Finished(ask) /\ Finished(waiting)
    /\ Len(sessions) = 1
    /\ Len(sessions[1].messages) = 4
    /\ sessions[1].messages[1].role = "user"
    /\ sessions[1].messages[2].role = "user"
    /\ sessions[1].messages[3].role = "assistant"
    /\ sessions[1].messages[4].role = "assistant"

(***************************************************************************)
(* Properties of repeated questions (SpecRepeat).                          *)
(***************************************************************************)
\* the sets of the session for the question, in any spelling, that are
\* neither overwritten, evicted or invalidated nor older than ttl
LiveAnswers(session_id, question) ==
    {w \in written : /\ w.session_id = cache_session(session_id)
                     /\ w.question = normalize(question)
                     /\ now - w.at <= ttl}

\* C40: an ask_question(q', s) that follows a request which cached answer A
\* for a spelling q of the same question, with the entry neither evicted,
\* invalidated nor expired, takes A from the cache; it goes on to the two
\* messages without context, routing, retrieval or generation, sets nothing
\* in the cache, returns A, and leaves the session, if that is still alive,
\* ending with the messages (user, q') and (assistant, A).
C40_RepeatFromCache ==
    [][/\ (asked' = asked + 1 /\ LiveAnswers(ask'.session_id, ask'.question) # {}) =>
            /\ ask'.hit
            /\ ask'.pc = "save_user"
            /\ \E w \in LiveAnswers(ask'.session_id, ask'.question) : ask'.answer = w.answer
       /\ ask'.hit =>
            /\ ask'.pc \in {"save_user", "save_assistant", "done"}
            /\ ask'.kind = "cached" /\ ask'.route = None /\ ~ask'.context
            /\ ask'.sets = <<>>
            /\ rcalls' = rcalls /\ chunks' = chunks
       /\ (ask'.hit /\ ask.pc = "save_assistant" /\ ask'.pc = "done") =>
            /\ ask'.result = "returned"
            /\ ask'.answer = ask.answer
            /\ ask'.msgs = <<<<"user", ask.question>>, <<"assistant", ask.answer>>>>
            /\ Live(ask.session_id) =>
                LET messages == SessionOf(sessions', ask.session_id).messages
                    n        == Len(messages)
                IN  /\ n >= 2
                    /\ Turns(SubSeq(messages, n - 1, n))
                            = <<<<"user", ask.question>>, <<"assistant", ask.answer>>>>]_vars

\* a question asked as "a" was answered by the generator and cached; asked
\* again as " A" it was answered from the cache, and the session holds both
\* turns
C40_Witness ==
    /\ ask.pc = "done"
    /\ ask.hit
    /\ ask.result = "returned"
    /\ ask.question = <<" ", "A">>
    /\ ask.answer \in GeneratedAnswers
    /\ \E i \in 1..Len(cache) : cache[i].query = <<"a">> /\ cache[i].hit_count = 1
    /\ Len(sessions) = 1
    /\ Turns(sessions[1].messages)
            = <<<<"user", <<"a">>>>, <<"assistant", ask.answer>>,
                <<"user", <<" ", "A">>>>, <<"assistant", ask.answer>>>>

====
